---- MODULE Spec2Model ----
(***************************************************************************)
(* portfolio-sync: the remote metadata merge (processRepo, CLI and web),   *)
(* the bulk run (generate, startScan), the web entry list (toggleEntry,    *)
(* toggleFeatured, formatEntries) and the override validator               *)
(* (validateConfig).                                                       *)
(*                                                                         *)
(* JavaScript values are tagged records: [t |-> "undefined"],              *)
(* [t |-> "null"], [t |-> "string", s |-> <chars>], [t |-> "boolean", ...],*)
(* [t |-> "number", ...], [t |-> "array", a |-> <values>],                 *)
(* [t |-> "object", o |-> <record of values>].  A string is a sequence of  *)
(* symbols.  In text whose characters the code inspects (dates, paths,     *)
(* README text, repository names) every symbol is one character; a label   *)
(* the code only copies, compares for equality or tests for emptiness      *)
(* (topics, languages, categories, technologies, URLs) is written as one   *)
(* symbol.  An object key that is absent and a key whose value is          *)
(* undefined are the same thing to every reader in the code                *)
(* (||, ?., JSON.stringify), so an absent key is the value Undefined.      *)
(***************************************************************************)
EXTENDS Integers, Sequences, FiniteSets, TLC

VARIABLES
    pc,        \* position of the operation under way
    variant,   \* "cli" (src/generate.ts) or "web" (web/src/lib/portfolio.ts)
    now,       \* the wall clock read by inferStatus
    host,      \* processRepo's input: descriptor and fetched files
    entry,     \* processRepo's result
    emitted,   \* the entry as JSON.stringify writes it
    listed,    \* the repositories the API lists (listRepos, /api/repos)
    exclude,   \* generate's exclude option: repository names
    repoList,  \* the list the loop runs over (filtered, repoList)
    idx,       \* the loop's position in repoList, from 1
    results,   \* the loop's accumulated entries (entries, results)
    failed,    \* the positions whose processing gave no entry
    format,    \* the output format asked for
    written,   \* generate's formatted output; the web page's download
    appState,  \* the web page's AppState
    entries,   \* the web page's entries
    preview,   \* the web page's preview
    toggles,   \* the toggles made on the page so far
    document,  \* validateConfig's argument
    verdict,   \* validateConfig's result
    remote,    \* what the GitHub API answers for the three fetches of processRepo
    configFile, \* the .portfolio.json of the directory a local command works on
    workdir,   \* the directory a local command works on: its files, package.json
    detected,  \* what the local detectors returned
    exitCode   \* the exit code of a local command, -1 while it runs

callVars == <<host, entry, emitted>>

runVars == <<listed, exclude, repoList, idx, results, failed, format, written,
             appState, entries, preview, toggles>>

checkVars == <<document, verdict>>

envVars == <<remote, configFile, workdir, detected, exitCode>>

vars == <<pc, variant, now, callVars, runVars, checkVars, envVars>>

-----------------------------------------------------------------------------
(* JavaScript values *)

Undefined == [t |-> "undefined"]

Null == [t |-> "null"]

Str(s) == [t |-> "string", s |-> s]

Bool(b) == [t |-> "boolean", b |-> b]

Num(n) == [t |-> "number", n |-> n]

Arr(a) == [t |-> "array", a |-> a]

Obj(o) == [t |-> "object", o |-> o]

\* a label: a string written as one symbol
L(s) == Str(<<s>>)

EmptyStr == Str(<<>>)

IsStr(x) == x.t = "string"

\* ToBoolean
Truthy(x) ==
    CASE x.t = "undefined" -> FALSE
      [] x.t = "null" -> FALSE
      [] x.t = "string" -> Len(x.s) > 0
      [] x.t = "boolean" -> x.b
      [] x.t = "number" -> x.n # 0
      [] OTHER -> TRUE

\* a || b
Or(a, b) == IF Truthy(a) THEN a ELSE b

\* a?.length, as used in a condition
HasLength(a) ==
    \/ a.t = "array" /\ Len(a.a) > 0
    \/ a.t = "string" /\ Len(a.s) > 0

-----------------------------------------------------------------------------
(* Sequences and text *)

Range(s) == {s[i] : i \in 1..Len(s)}

RECURSIVE Dedup(_)
\* [...new Set(a)]: first occurrences, in insertion order
Dedup(s) ==
    IF s = <<>> THEN <<>>
    ELSE LET r == Dedup(SubSeq(s, 1, Len(s) - 1))
             x == s[Len(s)]
         IN IF x \in Range(r) THEN r ELSE Append(r, x)

Digits == {"0", "1", "2", "3", "4", "5", "6", "7", "8", "9"}

DigitVal(c) ==
    CASE c = "0" -> 0 [] c = "1" -> 1 [] c = "2" -> 2 [] c = "3" -> 3
      [] c = "4" -> 4 [] c = "5" -> 5 [] c = "6" -> 6 [] c = "7" -> 7
      [] c = "8" -> 8 [] c = "9" -> 9

DigitChar(n) == <<"0", "1", "2", "3", "4", "5", "6", "7", "8", "9">>[n + 1]

\* the collation rank of the characters a date string is made of
CharRank(c) ==
    CASE c = "-" -> 1
      [] c = "/" -> 2
      [] c \in Digits -> 3 + DigitVal(c)
      [] OTHER -> 20

RECURSIVE LocaleCompare(_, _)
\* a.localeCompare(b): negative, zero or positive
LocaleCompare(a, b) ==
    IF a = <<>> /\ b = <<>> THEN 0
    ELSE IF a = <<>> THEN -1
    ELSE IF b = <<>> THEN 1
    ELSE IF CharRank(a[1]) < CharRank(b[1]) THEN -1
    ELSE IF CharRank(a[1]) > CharRank(b[1]) THEN 1
    ELSE LocaleCompare(Tail(a), Tail(b))

StartsWith(s, p) == Len(s) >= Len(p) /\ SubSeq(s, 1, Len(p)) = p

EndsWith(s, p) == Len(s) >= Len(p) /\ SubSeq(s, Len(s) - Len(p) + 1, Len(s)) = p

Whitespace == {" ", "\t", "\r", "\n"}

RECURSIVE TrimStart(_)
TrimStart(s) ==
    IF s # <<>> /\ s[1] \in Whitespace THEN TrimStart(Tail(s)) ELSE s

RECURSIVE TrimEnd(_)
TrimEnd(s) ==
    IF s # <<>> /\ s[Len(s)] \in Whitespace
    THEN TrimEnd(SubSeq(s, 1, Len(s) - 1))
    ELSE s

\* s.trim()
Trim(s) == TrimEnd(TrimStart(s))

\* s.split(sep), sep one character: the pieces of s between occurrences of sep
Split(s, sep) ==
    LET cuts == {i \in 1..Len(s) : s[i] = sep}
        Cut(k) == IF k = 0 THEN 0
                  ELSE IF k > Cardinality(cuts) THEN Len(s) + 1
                  ELSE CHOOSE i \in cuts : Cardinality({j \in cuts : j <= i}) = k
    IN [k \in 1..(Cardinality(cuts) + 1) |-> SubSeq(s, Cut(k - 1) + 1, Cut(k) - 1)]

RECURSIVE Join(_, _)
\* parts.join(sep)
Join(parts, sep) ==
    IF parts = <<>> THEN <<>>
    ELSE IF Len(parts) = 1 THEN parts[1]
    ELSE parts[1] \o sep \o Join(Tail(parts), sep)

\* s.slice(0, n)
Slice(s, n) == SubSeq(s, 1, IF Len(s) < n THEN Len(s) ELSE n)

LowerCase == <<"a", "b", "c", "d", "e", "f", "g", "h", "i", "j", "k", "l", "m",
               "n", "o", "p", "q", "r", "s", "t", "u", "v", "w", "x", "y", "z">>

UpperCase == <<"A", "B", "C", "D", "E", "F", "G", "H", "I", "J", "K", "L", "M",
               "N", "O", "P", "Q", "R", "S", "T", "U", "V", "W", "X", "Y", "Z">>

IndexIn(c, alphabet) == CHOOSE i \in 1..Len(alphabet) : alphabet[i] = c

ToUpperChar(c) ==
    IF c \in Range(LowerCase) THEN UpperCase[IndexIn(c, LowerCase)] ELSE c

ToLowerChar(c) ==
    IF c \in Range(UpperCase) THEN LowerCase[IndexIn(c, UpperCase)] ELSE c

\* s.toLowerCase()
ToLowerCase(s) == [i \in 1..Len(s) |-> ToLowerChar(s[i])]

\* the regular expression class \w
IsWordChar(c) ==
    c \in Range(LowerCase) \/ c \in Range(UpperCase) \/ c \in Digits \/ c = "_"

-----------------------------------------------------------------------------
(* Detectors of the remote variants *)

\* topicMap (generate.ts) and TOPIC_MAP (portfolio.ts): the same table
TopicTech(topic) ==
    CASE topic = "react" -> "React"
      [] topic = "nextjs" -> "Next.js"
      [] topic = "vue" -> "Vue"
      [] topic = "angular" -> "Angular"
      [] topic = "svelte" -> "Svelte"
      [] topic = "typescript" -> "TypeScript"
      [] topic = "python" -> "Python"
      [] topic = "rust" -> "Rust"
      [] topic = "go" -> "Go"
      [] topic = "machine-learning" -> "Machine Learning"
      [] topic = "three-js" -> "Three.js"
      [] topic = "threejs" -> "Three.js"
      [] topic = "tailwindcss" -> "Tailwind CSS"
      [] topic = "docker" -> "Docker"
      [] topic = "kubernetes" -> "Kubernetes"
      [] topic = "graphql" -> "GraphQL"
      [] topic = "tensorflow" -> "TensorFlow"
      [] topic = "pytorch" -> "PyTorch"
      [] OTHER -> ""

RECURSIVE TopicTechs(_)
\* the loop over topics: the mapped technology of every topic the table knows
TopicTechs(topics) ==
    IF topics = <<>> THEN <<>>
    ELSE (IF TopicTech(topics[1]) # "" THEN <<L(TopicTech(topics[1]))>> ELSE <<>>)
         \o TopicTechs(Tail(topics))

\* lang: Null or a string; topics: a sequence of topic names
inferTechFromLanguage(lang, topics) ==
    Arr(Dedup((IF Truthy(lang) THEN <<lang>> ELSE <<>>) \o TopicTechs(topics)))

inferTech(lang, topics) ==
    Arr(Dedup((IF Truthy(lang) THEN <<lang>> ELSE <<>>) \o TopicTechs(topics)))

Has(t, names) == t \cap names # {}

inferCategoryFromTopics(topics, lang) ==
    LET t == Range(topics) IN
    IF Has(t, {"game", "gamedev", "unity", "unreal"}) THEN L("Game Development")
    ELSE IF Has(t, {"machine-learning", "deep-learning", "ai"}) THEN L("Machine Learning")
    ELSE IF Has(t, {"robotics", "arduino", "embedded"}) THEN L("Robotics")
    ELSE IF Has(t, {"three-js", "threejs", "webgl", "3d"}) THEN L("Web 3D")
    ELSE IF Has(t, {"react", "vue", "angular", "nextjs", "webapp"}) THEN L("Web App")
    ELSE IF Has(t, {"api", "backend", "server"}) THEN L("Backend/API")
    ELSE IF Has(t, {"mobile", "react-native", "flutter"}) THEN L("Mobile App")
    ELSE IF Has(t, {"cli", "tool"}) THEN L("CLI Tool")
    ELSE IF lang = L("C#") THEN L("Game Development")
    ELSE IF lang = L("Rust") THEN L("Systems Programming")
    ELSE IF lang = L("Go") THEN L("Backend/API")
    ELSE IF lang = L("Python") THEN L("Python")
    ELSE L("Software")

inferCategory(topics, lang) ==
    LET t == Range(topics) IN
    IF Has(t, {"game", "gamedev", "unity"}) THEN L("Game Development")
    ELSE IF Has(t, {"machine-learning", "deep-learning", "ai"}) THEN L("Machine Learning")
    ELSE IF Has(t, {"robotics", "arduino", "embedded"}) THEN L("Robotics")
    ELSE IF Has(t, {"three-js", "threejs", "webgl", "3d"}) THEN L("Web 3D")
    ELSE IF Has(t, {"react", "vue", "angular", "nextjs"}) THEN L("Web App")
    ELSE IF Has(t, {"api", "backend", "server"}) THEN L("Backend/API")
    ELSE IF Has(t, {"mobile", "react-native", "flutter"}) THEN L("Mobile App")
    ELSE IF Has(t, {"cli", "tool"}) THEN L("CLI Tool")
    ELSE IF lang = L("C#") THEN L("Game Development")
    ELSE IF lang = L("Rust") THEN L("Systems Programming")
    ELSE IF lang = L("Go") THEN L("Backend/API")
    ELSE IF lang = L("Python") THEN L("Python")
    ELSE L("Software")

(* Dates.  new Date(s) is modelled for the timestamps the GitHub API sends,  *)
(* YYYY-MM-DDTHH:MM:SSZ, read in UTC, and for every other text, which is an  *)
(* invalid date (listRepos passes "" when pushed_at is missing).            *)

AllDigits(s) == \A i \in 1..Len(s) : s[i] \in Digits

RECURSIVE StrToNat(_)
StrToNat(s) ==
    IF s = <<>> THEN 0
    ELSE 10 * StrToNat(SubSeq(s, 1, Len(s) - 1)) + DigitVal(s[Len(s)])

RECURSIVE NatToStr(_)
\* String(n)
NatToStr(n) ==
    IF n < 10 THEN <<DigitChar(n)>>
    ELSE Append(NatToStr(n \div 10), DigitChar(n % 10))

\* String(n).padStart(2, "0")
PadStart2(s) == IF Len(s) < 2 THEN <<"0">> \o s ELSE s

IsTimestamp(s) ==
    /\ Len(s) = 20
    /\ AllDigits(SubSeq(s, 1, 4)) /\ s[5] = "-"
    /\ AllDigits(SubSeq(s, 6, 7)) /\ s[8] = "-"
    /\ AllDigits(SubSeq(s, 9, 10)) /\ s[11] = "T"
    /\ AllDigits(SubSeq(s, 12, 13)) /\ s[14] = ":"
    /\ AllDigits(SubSeq(s, 15, 16)) /\ s[17] = ":"
    /\ AllDigits(SubSeq(s, 18, 19)) /\ s[20] = "Z"
    /\ StrToNat(SubSeq(s, 6, 7)) \in 1..12
    /\ StrToNat(SubSeq(s, 9, 10)) \in 1..28

\* new Date(s): [valid, y, m, d]
ParseDate(s) ==
    IF IsTimestamp(s)
    THEN [valid |-> TRUE, y |-> StrToNat(SubSeq(s, 1, 4)),
          m |-> StrToNat(SubSeq(s, 6, 7)), d |-> StrToNat(SubSeq(s, 9, 10))]
    ELSE [valid |-> FALSE, y |-> 0, m |-> 0, d |-> 0]

\* a date's place on the time line, for <
DayNumber(d) == (d.y * 12 + (d.m - 1)) * 31 + d.d

\* a status that looks at the archived flag alone
inferStatusByFlag(repo, clock) ==
    IF repo.archived THEN L("Archived") ELSE L("Completed")

\* pushed < oneYearAgo, false when pushed is an invalid date
inferStatus(repo, clock) ==
    IF repo.archived THEN L("Archived")
    ELSE LET pushed == ParseDate(repo.pushedAt.s)
             oneYearAgo == [clock EXCEPT !.y = clock.y - 1]
         IN IF pushed.valid /\ DayNumber(pushed) < DayNumber(oneYearAgo)
            THEN L("Archived")
            ELSE L("Completed")

toYearMonth(dateStr) ==
    LET d == ParseDate(dateStr.s) IN
    IF ~d.valid THEN EmptyStr
    ELSE Str(NatToStr(d.y) \o <<"-">> \o PadStart2(NatToStr(d.m)))

\* repo.name.replace(/[-_]/g, " ").replace(/\b\w/g, (c) => c.toUpperCase())
CleanName(name) ==
    LET spaced == [i \in 1..Len(name) |->
                      IF name[i] \in {"-", "_"} THEN " " ELSE name[i]]
    IN Str([i \in 1..Len(spaced) |->
               IF IsWordChar(spaced[i]) /\ (i = 1 \/ ~IsWordChar(spaced[i - 1]))
               THEN ToUpperChar(spaced[i])
               ELSE spaced[i]])

(* README text *)

IsHeadingLine(trimmed) == StartsWith(trimmed, <<"#">>)

IsSkippedLine(trimmed) ==
    \/ trimmed = <<>>
    \/ StartsWith(trimmed, <<"[", "!", "[">>)
    \/ StartsWith(trimmed, <<"<">>)

RECURSIVE ReadmeParagraphsCli(_, _, _)
\* the loop over the README's lines in generate.ts
ReadmeParagraphsCli(lines, paragraphs, pastTitle) ==
    IF lines = <<>> THEN paragraphs
    ELSE LET trimmed == Trim(lines[1]) IN
         IF IsHeadingLine(trimmed)
         THEN IF pastTitle /\ Len(paragraphs) > 0
              THEN paragraphs
              ELSE ReadmeParagraphsCli(Tail(lines), paragraphs, TRUE)
         ELSE IF IsSkippedLine(trimmed)
         THEN ReadmeParagraphsCli(Tail(lines), paragraphs, pastTitle)
         ELSE LET pushed == IF pastTitle THEN Append(paragraphs, trimmed)
                            ELSE paragraphs
              IN IF Len(pushed) >= 3 THEN pushed
                 ELSE ReadmeParagraphsCli(Tail(lines), pushed, pastTitle)

RECURSIVE ReadmeParagraphsWeb(_, _, _)
\* the loop over the README's lines in portfolio.ts: a later heading does not stop it
ReadmeParagraphsWeb(lines, paragraphs, pastTitle) ==
    IF lines = <<>> THEN paragraphs
    ELSE LET trimmed == Trim(lines[1]) IN
         IF IsHeadingLine(trimmed)
         THEN ReadmeParagraphsWeb(Tail(lines), paragraphs, TRUE)
         ELSE IF IsSkippedLine(trimmed)
         THEN ReadmeParagraphsWeb(Tail(lines), paragraphs, pastTitle)
         ELSE LET pushed == IF pastTitle THEN Append(paragraphs, trimmed)
                            ELSE paragraphs
              IN IF Len(pushed) >= 3 THEN pushed
                 ELSE ReadmeParagraphsWeb(Tail(lines), pushed, pastTitle)

SentenceEnd == {".", "!", "?"}

\* readme.match(/^[^.!?]+[.!?]/): the matched text, or <<>> when nothing matches
SentenceMatch(text) ==
    LET ends == {i \in 1..Len(text) : text[i] \in SentenceEnd} IN
    IF ends = {} THEN <<>>
    ELSE LET k == CHOOSE i \in ends : \A j \in ends : i <= j
         IN IF k = 1 THEN <<>> ELSE SubSeq(text, 1, k)

ShortCut == 120

\* description and shortDescription of the auto-detect path
\* (repoDescription: Null or a string; readmeRaw: Null or a string)
Describe(repoDescription, readmeRaw, paragraphs) ==
    LET description0 == Or(repoDescription, Undefined)
        short0 == description0
        readme == Join(paragraphs, <<" ">>)
        matched == SentenceMatch(readme)
    IN IF Truthy(readmeRaw) /\ Len(paragraphs) > 0
       THEN [description |->
                IF ~Truthy(description0) \/ Len(readme) > Len(description0.s)
                THEN Str(readme) ELSE description0,
             shortDescription |->
                IF ~Truthy(short0)
                THEN IF matched # <<>> THEN Str(Trim(matched))
                     ELSE Str(Slice(readme, ShortCut))
                ELSE short0]
       ELSE [description |-> description0, shortDescription |-> short0]

DescribeCli(repoDescription, readmeRaw) ==
    Describe(repoDescription, readmeRaw,
             IF Truthy(readmeRaw)
             THEN ReadmeParagraphsCli(Split(readmeRaw.s, "\n"), <<>>, FALSE)
             ELSE <<>>)

DescribeWeb(repoDescription, readmeRaw) ==
    Describe(repoDescription, readmeRaw,
             IF Truthy(readmeRaw)
             THEN ReadmeParagraphsWeb(Split(readmeRaw.s, "\n"), <<>>, FALSE)
             ELSE <<>>)

(* Assets in the file tree *)

MODEL_EXTS ==
    {<<".", "s", "t", "l">>, <<".", "g", "l", "t", "f">>, <<".", "g", "l", "b">>,
     <<".", "o", "b", "j">>, <<".", "f", "b", "x">>, <<".", "3", "m", "f">>}

IMAGE_EXTS ==
    {<<".", "p", "n", "g">>, <<".", "j", "p", "g">>, <<".", "j", "p", "e", "g">>,
     <<".", "g", "i", "f">>, <<".", "w", "e", "b", "p">>, <<".", "s", "v", "g">>}

IMAGE_DIRS ==
    {<<"d", "o", "c", "s", "/">>, <<"a", "s", "s", "e", "t", "s", "/">>,
     <<"i", "m", "a", "g", "e", "s", "/">>,
     <<"s", "c", "r", "e", "e", "n", "s", "h", "o", "t", "s", "/">>,
     <<"m", "e", "d", "i", "a", "/">>}

\* "." + file.split(".").pop()?.toLowerCase()
ExtOf(file) ==
    LET pieces == Split(file, ".") IN <<".">> \o ToLowerCase(pieces[Len(pieces)])

InImageDir(file) == \E d \in IMAGE_DIRS : StartsWith(file, d)

RECURSIVE SelectSeq2(_, _)
SelectSeq2(s, keep) ==
    IF s = <<>> THEN <<>>
    ELSE (IF s[1] \in keep THEN <<s[1]>> ELSE <<>>) \o SelectSeq2(Tail(s), keep)

\* tree: a sequence of paths (strings); the result's lists are JS strings
findAssetsInTree(files) ==
    [models |-> SelectSeq2(files, {f \in Range(files) : ExtOf(f.s) \in MODEL_EXTS}),
     images |-> SelectSeq2(files, {f \in Range(files) :
                    ExtOf(f.s) \in IMAGE_EXTS /\ InImageDir(f.s)})]

\* the two tree.filter calls of portfolio.ts: endsWith, case-sensitive
findAssetsWeb(files) ==
    [models |-> SelectSeq2(files, {f \in Range(files) :
                    \E e \in MODEL_EXTS : EndsWith(f.s, e)}),
     images |-> SelectSeq2(files, {f \in Range(files) :
                    (\E e \in IMAGE_EXTS : EndsWith(f.s, e)) /\ InImageDir(f.s)})]

-----------------------------------------------------------------------------
(* The override schema (zod).  Every check yields the issues it raises, in  *)
(* the order zod visits the schema's keys.                                  *)

SchemaKeys ==
    {"name", "shortDescription", "description", "category", "technologies",
     "status", "dateCompleted", "models", "images", "thumbnail", "media",
     "links", "featured", "exclude"}

\* the keys of a parsed .portfolio.json in this model: the schema's, and one
\* key the schema does not know
DocKeys == SchemaKeys \cup {"github"}

MediaKeys == {"video", "website", "pdf", "game"}

GameKeys == {"type", "url"}

LinksKeys == {"liveDemo", "docs"}

Issue(path, message) == [path |-> path, message |-> message]

InvalidType(expected, x, path) ==
    Issue(path, IF x.t = "undefined" THEN <<"Required">>
                ELSE <<"Expected ", expected, ", received ", x.t>>)

\* schema.optional()
Optional(x, issues) == IF x = Undefined THEN <<>> ELSE issues

\* z.string()
ZString(x, path) ==
    IF x.t # "string" THEN <<InvalidType("string", x, path)>> ELSE <<>>

\* a string that may be left out
ZStringOptional(x, path) == Optional(x, ZString(x, path))

\* z.string().min(1)
ZStringMin1(x, path) ==
    IF x.t # "string" THEN <<InvalidType("string", x, path)>>
    ELSE IF Len(x.s) < 1
    THEN <<Issue(path, <<"String must contain at least 1 character(s)">>)>>
    ELSE <<>>

\* new URL(s) succeeds: the text starts with a scheme
IsUrl(s) == Len(s) >= 1 /\ s[1] \in {"http:", "https:"}

\* z.string().url()
ZStringUrl(x, path) ==
    IF x.t # "string" THEN <<InvalidType("string", x, path)>>
    ELSE IF ~IsUrl(x.s) THEN <<Issue(path, <<"Invalid url">>)>>
    ELSE <<>>

\* /^\d{4}-\d{2}$/.test(s)
MatchesYearMonth(s) ==
    /\ Len(s) = 7
    /\ AllDigits(SubSeq(s, 1, 4))
    /\ s[5] = "-"
    /\ AllDigits(SubSeq(s, 6, 7))

\* z.string().regex(/^\d{4}-\d{2}$/, "Must be YYYY-MM format")
ZYearMonth(x, path) ==
    IF x.t # "string" THEN <<InvalidType("string", x, path)>>
    ELSE IF ~MatchesYearMonth(x.s) THEN <<Issue(path, <<"Must be YYYY-MM format">>)>>
    ELSE <<>>

\* z.enum(values)
ZEnum(x, values, path) ==
    IF x.t # "string" THEN <<InvalidType("enum", x, path)>>
    ELSE IF x.s \notin values THEN <<Issue(path, <<"Invalid enum value">>)>>
    ELSE <<>>

\* z.boolean()
ZBoolean(x, path) ==
    IF x.t # "boolean" THEN <<InvalidType("boolean", x, path)>> ELSE <<>>

RECURSIVE ZElements(_, _, _)
\* the issues of the elements i.. of an array of strings
ZElements(a, i, path) ==
    IF i > Len(a) THEN <<>>
    ELSE ZString(a[i], Append(path, DigitChar(i - 1))) \o ZElements(a, i + 1, path)

\* z.array(z.string())
ZStringArray(x, path) ==
    IF x.t # "array" THEN <<InvalidType("array", x, path)>>
    ELSE ZElements(x.a, 1, path)

StatusValues == {<<"Completed">>, <<"In Progress">>, <<"Archived">>}

GameTypes == {<<"unity-webgl">>, <<"itch">>}

gameSchema(x, path) ==
    IF x.t # "object" THEN <<InvalidType("object", x, path)>>
    ELSE ZEnum(x.o.type, GameTypes, Append(path, "type"))
         \o ZStringUrl(x.o.url, Append(path, "url"))

mediaSchema(x, path) ==
    IF x.t # "object" THEN <<InvalidType("object", x, path)>>
    ELSE Optional(x.o.video, ZStringUrl(x.o.video, Append(path, "video")))
         \o Optional(x.o.website, ZStringUrl(x.o.website, Append(path, "website")))
         \o Optional(x.o.pdf, ZString(x.o.pdf, Append(path, "pdf")))
         \o Optional(x.o.game, gameSchema(x.o.game, Append(path, "game")))

linksSchema(x, path) ==
    IF x.t # "object" THEN <<InvalidType("object", x, path)>>
    ELSE Optional(x.o.liveDemo, ZStringUrl(x.o.liveDemo, Append(path, "liveDemo")))
         \o Optional(x.o.docs, ZStringUrl(x.o.docs, Append(path, "docs")))

\* the issues of status: z.enum([...]).optional()
StatusIssues(x) == Optional(x, ZEnum(x, StatusValues, <<"status">>))

\* a dateCompleted of any form
DateUnchecked(x) == <<>>

\* the issues of dateCompleted
DateIssues(x) == Optional(x, ZYearMonth(x, <<"dateCompleted">>))

\* portfolioConfigSchema.safeParse(data).error.issues
portfolioConfigSchema(data) ==
    IF data.t # "object" THEN <<InvalidType("object", data, <<>>)>>
    ELSE LET d == data.o IN
         ZStringMin1(d.name, <<"name">>)
         \o Optional(d.shortDescription, ZString(d.shortDescription, <<"shortDescription">>))
         \o Optional(d.description, ZString(d.description, <<"description">>))
         \o Optional(d.category, ZString(d.category, <<"category">>))
         \o Optional(d.technologies, ZStringArray(d.technologies, <<"technologies">>))
         \o StatusIssues(d.status)
         \o DateIssues(d.dateCompleted)
         \o Optional(d.models, ZStringArray(d.models, <<"models">>))
         \o Optional(d.images, ZStringArray(d.images, <<"images">>))
         \o Optional(d.thumbnail, ZString(d.thumbnail, <<"thumbnail">>))
         \o Optional(d.media, mediaSchema(d.media, <<"media">>))
         \o Optional(d.links, linksSchema(d.links, <<"links">>))
         \o Optional(d.featured, ZBoolean(d.featured, <<"featured">>))
         \o Optional(d.exclude, ZBoolean(d.exclude, <<"exclude">>))

\* `${i.path.join(".")}: ${i.message}`
FormatIssue(i) ==
    Join([k \in 1..Len(i.path) |-> <<i.path[k]>>], <<".">>) \o <<":", " ">> \o i.message

\* result.data: the schema's keys only (zod strips the keys it does not know)
Stripped(data) == [k \in SchemaKeys |-> data.o[k]]

validateConfig(data) ==
    LET issues == portfolioConfigSchema(data) IN
    IF issues = <<>>
    THEN [success |-> TRUE, data |-> Stripped(data), errors |-> <<>>]
    ELSE [success |-> FALSE, data |-> Undefined,
          errors |-> [k \in 1..Len(issues) |-> FormatIssue(issues[k])]]

-----------------------------------------------------------------------------
(* processRepo *)

EntryKeys == SchemaKeys \cup {"github", "enabled"}

\* models.length > 0 ? models : undefined
NonEmptyOrUndefined(a) == IF Len(a) > 0 THEN Arr(a) ELSE Undefined

\* repo.homepage ? { liveDemo: repo.homepage } : undefined
HomepageLinks(repo) ==
    IF Truthy(repo.homepage)
    THEN Obj([liveDemo |-> repo.homepage, docs |-> Undefined])
    ELSE Undefined

\* generate.ts, lines 151-212: the entry built from the repository alone
AutoEntryCli(h, clock) ==
    LET repo == h.info
        text == DescribeCli(repo.description, h.readme)
        assets == findAssetsInTree(h.tree)
    IN [k \in EntryKeys |->
          CASE k = "name" -> CleanName(repo.name)
            [] k = "shortDescription" -> text.shortDescription
            [] k = "description" -> text.description
            [] k = "category" -> inferCategoryFromTopics(repo.topics, repo.language)
            [] k = "technologies" -> inferTechFromLanguage(repo.language, repo.topics)
            [] k = "status" -> inferStatus(repo, clock)
            [] k = "dateCompleted" -> toYearMonth(repo.pushedAt)
            [] k = "github" -> repo.url
            [] k = "models" -> NonEmptyOrUndefined(assets.models)
            [] k = "images" -> NonEmptyOrUndefined(assets.images)
            [] k = "links" -> HomepageLinks(repo)
            [] OTHER -> Undefined]

\* generate.ts, lines 138-144: { ...result.data, github, technologies, category, status }
OverrideEntryCli(data, h, clock) ==
    LET repo == h.info IN
    [k \in EntryKeys |->
       CASE k = "github" -> repo.url
         [] k = "technologies" ->
              Or(data.technologies, inferTechFromLanguage(repo.language, repo.topics))
         [] k = "category" ->
              Or(data.category, inferCategoryFromTopics(repo.topics, repo.language))
         [] k = "status" -> Or(data.status, inferStatus(repo, clock))
         [] k = "enabled" -> Undefined
         [] OTHER -> data[k]]

\* h.config: [kind |-> "absent"] (getFileContent gave null or ""),
\* [kind |-> "invalid"] (JSON.parse throws) or [kind |-> "json", value |-> v]
processRepoCli(h, clock) ==
    IF h.config.kind = "json" /\ validateConfig(h.config.value).success
    THEN OverrideEntryCli(validateConfig(h.config.value).data, h, clock)
    ELSE AutoEntryCli(h, clock)

\* config.key on a parsed JSON value that is not null
Prop(config, key) == IF config.t = "object" THEN config.o[key] ELSE Undefined

\* portfolio.ts, lines 172-215
AutoEntryWeb(h, clock) ==
    LET repo == h.info
        text == DescribeWeb(repo.description, h.readme)
        assets == findAssetsWeb(h.tree)
    IN [k \in EntryKeys |->
          CASE k = "name" -> CleanName(repo.name)
            [] k = "shortDescription" -> text.shortDescription
            [] k = "description" -> text.description
            [] k = "category" -> inferCategory(repo.topics, repo.language)
            [] k = "technologies" -> inferTech(repo.language, repo.topics)
            [] k = "status" -> inferStatus(repo, clock)
            [] k = "dateCompleted" -> toYearMonth(repo.pushedAt)
            [] k = "github" -> repo.url
            [] k = "links" -> HomepageLinks(repo)
            [] k = "models" -> NonEmptyOrUndefined(assets.models)
            [] k = "images" -> NonEmptyOrUndefined(assets.images)
            [] k = "enabled" -> Bool(TRUE)
            [] OTHER -> Undefined]

\* an override path that copies the document's name and github as they are
OverrideEntryCopied(config, h, clock) ==
    [k \in EntryKeys |->
       CASE k = "enabled" -> Bool(Prop(config, "exclude") # Bool(TRUE))
         [] k = "github" -> Or(Prop(config, "github"), h.info.url)
         [] k \in DocKeys -> Prop(config, k)
         [] OTHER -> Undefined]

\* portfolio.ts, lines 153-168: no schema validation
OverrideEntryWeb(config, h, clock) ==
    LET repo == h.info IN
    [k \in EntryKeys |->
       CASE k = "name" -> Or(Prop(config, "name"), CleanName(repo.name))
         [] k = "shortDescription" -> Prop(config, "shortDescription")
         [] k = "description" ->
              Or(Or(Prop(config, "description"), repo.description), Undefined)
         [] k = "category" ->
              Or(Prop(config, "category"), inferCategory(repo.topics, repo.language))
         [] k = "technologies" ->
              Or(Prop(config, "technologies"), inferTech(repo.language, repo.topics))
         [] k = "status" -> Or(Prop(config, "status"), inferStatus(repo, clock))
         [] k = "dateCompleted" ->
              Or(Prop(config, "dateCompleted"), toYearMonth(repo.pushedAt))
         [] k = "featured" -> Prop(config, "featured")
         [] k = "github" -> repo.url
         [] k = "links" -> Or(Prop(config, "links"), HomepageLinks(repo))
         [] k = "media" -> Prop(config, "media")
         [] k = "models" -> Prop(config, "models")
         [] k = "images" -> Prop(config, "images")
         [] k = "enabled" -> Bool(Prop(config, "exclude") # Bool(TRUE))
         [] OTHER -> Undefined]

\* reading config.name of null throws inside the try: fall through
processRepoWeb(h, clock) ==
    IF h.config.kind = "json" /\ h.config.value.t # "null"
    THEN OverrideEntryWeb(h.config.value, h, clock)
    ELSE AutoEntryWeb(h, clock)

\* JSON.stringify of an object: the keys whose value is not undefined
Stringify(object, keys) ==
    [k \in {key \in keys : object[key] # Undefined} |-> object[k]]

\* toJson (portfolio.ts): ({ enabled, ...rest }) => rest
toJsonEntry(e) == Stringify(e, EntryKeys \ {"enabled"})

\* formatOutput "json" (generate.ts, line 288)
formatJsonEntry(e) == Stringify(e, EntryKeys)

-----------------------------------------------------------------------------
(* Sorting and formatting *)

\* a comparator that looks at the date alone
CompareByDate(a, b) ==
    LocaleCompare(Or(b.dateCompleted, EmptyStr).s, Or(a.dateCompleted, EmptyStr).s)

\* the comparator of entries.sort (generate.ts, 338-342) and results.sort
CompareEntries(a, b) ==
    IF Truthy(a.featured) /\ ~Truthy(b.featured) THEN -1
    ELSE IF ~Truthy(a.featured) /\ Truthy(b.featured) THEN 1
    ELSE LocaleCompare(Or(b.dateCompleted, EmptyStr).s, Or(a.dateCompleted, EmptyStr).s)

RECURSIVE InsertEntry(_, _)
\* x placed before the first element it sorts strictly before
InsertEntry(sorted, x) ==
    IF sorted = <<>> THEN <<x>>
    ELSE IF CompareEntries(x, sorted[1]) < 0 THEN <<x>> \o sorted
    ELSE <<sorted[1]>> \o InsertEntry(Tail(sorted), x)

RECURSIVE SortEntries(_)
\* Array.prototype.sort with CompareEntries: a stable sort
SortEntries(list) ==
    IF list = <<>> THEN <<>>
    ELSE InsertEntry(SortEntries(SubSeq(list, 1, Len(list) - 1)), list[Len(list)])

\* entry.links?.liveDemo, entry.media?.video
Nested(e, field, key) == IF e[field].t = "object" THEN e[field].o[key] ELSE Undefined

\* whether the YAML and Markdown writers emit a line for the key
HasLine(e, k) ==
    CASE k \in {"name", "github"} -> TRUE
      [] k \in {"technologies", "models", "images"} -> HasLength(e[k])
      [] k = "liveDemo" -> Truthy(Nested(e, "links", "liveDemo"))
      [] k = "video" -> Truthy(Nested(e, "media", "video"))
      [] k = "fullDescription" ->
            Truthy(e.description) /\ e.description # e.shortDescription
      [] OTHER -> Truthy(e[k])

LineValue(e, k) ==
    CASE k = "liveDemo" -> Nested(e, "links", "liveDemo")
      [] k = "video" -> Nested(e, "media", "video")
      [] k = "featured" -> Bool(TRUE)
      [] k = "fullDescription" -> e.description
      [] OTHER -> e[k]

\* the lines the YAML writer emits for one entry, by key
Block(e, keys) == [k \in {key \in keys : HasLine(e, key)} |-> LineValue(e, k)]

\* the lines the Markdown writer emits: models and images by their number
Bullets(e, keys) ==
    [k \in {key \in keys : HasLine(e, key)} |->
        IF k \in {"models", "images"} THEN Num(Len(e[k].a)) ELSE LineValue(e, k)]

YamlKeysCli ==
    {"name", "shortDescription", "description", "category", "technologies",
     "status", "dateCompleted", "github", "featured", "models", "images",
     "liveDemo", "video"}

YamlKeysWeb ==
    {"name", "shortDescription", "category", "technologies", "status",
     "dateCompleted", "github", "featured", "liveDemo"}

MarkdownKeysCli ==
    {"name", "featured", "shortDescription", "technologies", "status",
     "dateCompleted", "github", "liveDemo", "video", "models", "images",
     "fullDescription"}

MarkdownKeysWeb ==
    {"name", "featured", "shortDescription", "technologies", "status", "github",
     "liveDemo"}

JsonOutput(list, keys) ==
    [format |-> "json", projects |-> [i \in 1..Len(list) |-> Stringify(list[i], keys)]]

YamlOutput(list, keys) ==
    [format |-> "yaml", projects |-> [i \in 1..Len(list) |-> Block(list[i], keys)]]

\* entry.category || "Other"
CategoryOf(e) == Or(e.category, L("Other"))

RECURSIVE WithCategory(_, _)
WithCategory(list, c) ==
    IF list = <<>> THEN <<>>
    ELSE (IF CategoryOf(list[1]) = c THEN <<list[1]>> ELSE <<>>)
         \o WithCategory(Tail(list), c)

\* one section per category, in the order the categories are first seen
MarkdownOutput(list, keys) ==
    LET categories == Dedup([i \in 1..Len(list) |-> CategoryOf(list[i])])
    IN [format |-> "markdown", count |-> Len(list),
        sections |-> [c \in 1..Len(categories) |->
            LET projects == WithCategory(list, categories[c])
            IN [category |-> categories[c],
                projects |-> [i \in 1..Len(projects) |-> Bullets(projects[i], keys)]]]]

\* generate.ts
formatOutput(list, fmt) ==
    CASE fmt = "yaml" -> YamlOutput(list, YamlKeysCli)
      [] fmt = "markdown" -> MarkdownOutput(list, MarkdownKeysCli)
      [] OTHER -> JsonOutput(list, EntryKeys)

RECURSIVE Enabled(_)
\* entries.filter((e) => e.enabled)
Enabled(list) ==
    IF list = <<>> THEN <<>>
    ELSE (IF Truthy(list[1].enabled) THEN <<list[1]>> ELSE <<>>) \o Enabled(Tail(list))

\* portfolio.ts
formatEntries(list, fmt) ==
    CASE fmt = "yaml" -> YamlOutput(Enabled(list), YamlKeysWeb)
      [] fmt = "markdown" -> MarkdownOutput(Enabled(list), MarkdownKeysWeb)
      [] OTHER -> JsonOutput(Enabled(list), EntryKeys \ {"enabled"})

Formats == {"json", "yaml", "markdown"}

NoOutput == [format |-> "none"]

-----------------------------------------------------------------------------
(* The inputs the model runs on *)

NameRobotArm ==
    <<"r", "o", "b", "o", "t", "-", "a", "r", "m">>

TimeRecent ==
    <<"2", "0", "2", "6", "-", "0", "3", "-", "1", "5", "T", "1", "0", ":",
      "0", "0", ":", "0", "0", "Z">>

TimeOld ==
    <<"2", "0", "2", "4", "-", "0", "3", "-", "1", "5", "T", "1", "0", ":",
      "0", "0", ":", "0", "0", "Z">>

ReadmeText ==
    <<"#", " ", "T", "i", "t", "l", "e", "\n", "\n", "!", "[", "b", "a", "d",
      "g", "e", "]", "(", "u", "r", "l", ")", "\n", "\n", "T", "h", "i", "s",
      " ", "p", "r", "o", "j", "e", "c", "t", " ", "d", "o", "e", "s", " ",
      "X", ".", " ", "I", "t", " ", "a", "l", "s", "o", " ", "d", "o", "e",
      "s", " ", "Y", ".", "\n", "\n", "M", "o", "r", "e", " ", "t", "e", "x",
      "t", ".">>

TextArm ==
    <<"A", "n", " ", "a", "r", "m", ".">>

PathStl ==
    <<"c", "a", "d", "/", "a", "r", "m", ".", "s", "t", "l">>

PathPng ==
    <<"d", "o", "c", "s", "/", "p", "h", "o", "t", "o", ".", "p", "n", "g">>

PathIcon ==
    <<"s", "r", "c", "/", "i", "c", "o", "n", ".", "p", "n", "g">>

Date2023 ==
    <<"2", "0", "2", "3", "-", "0", "1">>

Date2024 ==
    <<"2", "0", "2", "4", "-", "0", "3">>

DateSlash ==
    <<"2", "0", "2", "4", "/", "0", "3">>

UrlRepo == <<"https:", "//github.com/u/robot-arm">>

UrlHome == <<"https:", "//arm.example.com">>

NotAUrl == <<"arm.example.com">>

\* the wall clocks of a run
Clocks == {[y |-> 2026, m |-> 11, d |-> 1], [y |-> 2025, m |-> 2, d |-> 1]}

BaseInfo ==
    [name |-> NameRobotArm, description |-> Null, url |-> Str(UrlRepo),
     homepage |-> Null, topics |-> <<>>, language |-> Null, archived |-> FALSE,
     pushedAt |-> Str(TimeRecent)]

\* a hosted repository without its .portfolio.json: descriptor, README, file tree
BaseRepo == [info |-> BaseInfo, readme |-> Null, tree |-> <<>>]

\* the scenario's repository: language Python, topic robotics
PythonRobotics ==
    [BaseRepo EXCEPT !.info.language = L("Python"), !.info.topics = <<"robotics">>]

ReposByDescriptor ==
    {[BaseRepo EXCEPT !.info.language = lang, !.info.topics = topics,
                      !.info.archived = push[1], !.info.pushedAt = push[2]] :
        lang \in {Null, L("Python")},
        topics \in {<<>>, <<"robotics">>, <<"react", "three-js">>},
        push \in {<<FALSE, Str(TimeRecent)>>, <<FALSE, Str(TimeOld)>>,
                  <<TRUE, Str(TimeRecent)>>, <<FALSE, EmptyStr>>}}

ReposByContent ==
    {[BaseRepo EXCEPT !.info.description = desc, !.info.homepage = home,
                      !.readme = readme, !.tree = tree] :
        desc \in {Null, Str(TextArm)},
        home \in {Null, Str(UrlHome)},
        readme \in {Null, Str(ReadmeText)},
        tree \in {<<>>, <<Str(PathPng), Str(PathIcon), Str(PathStl)>>}}

Repos == ReposByDescriptor \cup ReposByContent

NoDoc == [k \in DocKeys |-> Undefined]

NamedDoc == [NoDoc EXCEPT !["name"] = L("Robot Arm")]

\* documents that vary the fields processRepo fills in when they are unset
DocsByFilled ==
    {Obj([NoDoc EXCEPT !["name"] = n, !["category"] = c, !["technologies"] = t,
                       !["status"] = s, !["featured"] = f, !["exclude"] = x]) :
        n \in {Undefined, EmptyStr, L("Robot Arm")},
        c \in {Undefined, EmptyStr, L("Hardware")},
        t \in {Undefined, Arr(<<>>), Arr(<<L("ROS2")>>)},
        s \in {Undefined, L("In Progress"), L("Bogus")},
        f \in {Undefined, Bool(TRUE), Bool(FALSE)},
        x \in {Undefined, Bool(TRUE)}}

\* documents that vary the other fields
DocsByCopied ==
    {Obj([NamedDoc EXCEPT !["dateCompleted"] = d, !["models"] = m, !["images"] = i,
                         !["shortDescription"] = sd, !["description"] = ld,
                         !["links"] = l, !["github"] = g]) :
        d \in {Undefined, Str(Date2023), Str(DateSlash)},
        m \in {Undefined, Arr(<<>>), Arr(<<Str(PathStl)>>)},
        i \in {Undefined, Arr(<<Str(PathPng)>>)},
        sd \in {Undefined, L("A robot arm.")},
        ld \in {Undefined, L("A robot arm with six joints.")},
        l \in {Undefined, Obj([liveDemo |-> Str(UrlHome), docs |-> Undefined])},
        g \in {Undefined, L("https://elsewhere")}}

\* the scenario's override: {name: Robot Arm, featured: true, models: [cad/arm.stl]}
ScenarioDoc ==
    Obj([NamedDoc EXCEPT !["featured"] = Bool(TRUE),
                         !["models"] = Arr(<<Str(PathStl)>>)])

Json(v) == [kind |-> "json", value |-> v]

NoConfig == [kind |-> "absent"]

Configs ==
    {NoConfig, [kind |-> "invalid"], Json(Null), Json(Num(5))}
    \cup {Json(d) : d \in DocsByFilled \cup DocsByCopied \cup {ScenarioDoc}}

HostOf(r, c) == [info |-> r.info, readme |-> r.readme, tree |-> r.tree, config |-> c]

BaseRepos == {BaseRepo, PythonRobotics}

BaseConfigs == {NoConfig, Json(Obj(NamedDoc)), Json(ScenarioDoc)}

\* every document on two repositories, every repository under three documents
Hosts ==
    {HostOf(r, c) : r \in BaseRepos, c \in Configs}
    \cup {HostOf(r, c) : r \in Repos, c \in BaseConfigs}

-----------------------------------------------------------------------------
(* One call of processRepo, then the entry's JSON *)

\* the values of the variables a specification does not use
IdleCall == host = Undefined /\ entry = Undefined /\ emitted = Undefined

IdleRun ==
    /\ listed = <<>> /\ exclude = {} /\ repoList = <<>> /\ idx = 0
    /\ results = <<>> /\ failed = {} /\ format = "json" /\ written = NoOutput
    /\ appState = "loading" /\ entries = <<>> /\ preview = NoOutput
    /\ toggles = 0

IdleCheck == document = Undefined /\ verdict = Undefined

NotFetched == [kind |-> "none"]

NotDetected == [ran |-> FALSE]

IdleEnv ==
    /\ remote = NotFetched /\ configFile = NotFetched /\ workdir = NotFetched
    /\ detected = NotDetected /\ exitCode = -1

Init ==
    /\ pc = "start"
    /\ variant \in {"cli", "web"}
    /\ host \in Hosts
    /\ now \in Clocks
    /\ entry = Undefined
    /\ emitted = Undefined
    /\ IdleRun
    /\ IdleCheck
    /\ IdleEnv

ProcessRepoCli ==
    /\ pc = "start"
    /\ variant = "cli"
    /\ entry' = processRepoCli(host, now)
    /\ pc' = "processed"
    /\ UNCHANGED <<variant, host, now, emitted, runVars, checkVars, envVars>>

ProcessRepoWeb ==
    /\ pc = "start"
    /\ variant = "web"
    /\ entry' = processRepoWeb(host, now)
    /\ pc' = "processed"
    /\ UNCHANGED <<variant, host, now, emitted, runVars, checkVars, envVars>>

\* the entry as the JSON output carries it
EmitJson ==
    /\ pc = "processed"
    /\ emitted' = IF variant = "cli" THEN formatJsonEntry(entry) ELSE toJsonEntry(entry)
    /\ pc' = "emitted"
    /\ UNCHANGED <<variant, host, now, entry, runVars, checkVars, envVars>>

Next == ProcessRepoCli \/ ProcessRepoWeb \/ EmitJson

Spec == Init /\ [][Next]_vars

-----------------------------------------------------------------------------
(* The bulk run: generate (CLI) and startScan (web) *)

NameSite ==
    <<"s", "i", "t", "e">>

NameNotes ==
    <<"n", "o", "t", "e", "s">>

NameOldLib ==
    <<"o", "l", "d", "-", "l", "i", "b">>

NameGame ==
    <<"g", "a", "m", "e">>

NameDemo ==
    <<"d", "e", "m", "o">>

NameDot ==
    <<".", "g", "i", "t", "h", "u", "b">>

MaxRepos == 3

UrlOf(label) == Str(<<"https:", label>>)

Hosted(name, label, pushedAt, config) ==
    [info |-> [BaseInfo EXCEPT !.name = name, !.url = UrlOf(label),
                               !.pushedAt = pushedAt],
     readme |-> Null, tree |-> <<>>, config |-> config]

\* featured by its override, dated 2023-01
HostArm ==
    [Hosted(NameRobotArm, "//github.com/u/robot-arm", Str(TimeRecent),
            Json(Obj([NamedDoc EXCEPT !["featured"] = Bool(TRUE),
                                      !["dateCompleted"] = Str(Date2023)])))
     EXCEPT !.info.language = L("Python"), !.info.topics = <<"robotics">>]

\* no override, pushed 2026-03
HostSite == Hosted(NameSite, "//github.com/u/site", Str(TimeRecent), NoConfig)

\* no override, no push date
HostNotes == Hosted(NameNotes, "//github.com/u/notes", EmptyStr, NoConfig)

\* excluded by its override
HostOldLib ==
    Hosted(NameOldLib, "//github.com/u/old-lib", Str(TimeOld),
           Json(Obj([NoDoc EXCEPT !["name"] = L("Old Lib"), !["exclude"] = Bool(TRUE)])))

\* no override, pushed 2024-03
HostGame == Hosted(NameGame, "//github.com/u/game", Str(TimeOld), NoConfig)

\* not featured by its override, dated 2024-03
HostDemo ==
    Hosted(NameDemo, "//github.com/u/demo", Str(TimeRecent),
           Json(Obj([NoDoc EXCEPT !["name"] = L("Demo"), !["featured"] = Bool(FALSE),
                                  !["dateCompleted"] = Str(Date2024)])))

\* a repository whose name starts with a dot
HostDot == Hosted(NameDot, "//github.com/u/.github", Str(TimeRecent), NoConfig)

Catalogue == {HostArm, HostSite, HostNotes, HostOldLib, HostGame, HostDemo, HostDot}

\* the lists the API can return: distinct repositories
RepoLists ==
    {l \in UNION {[1..n -> Catalogue] : n \in 0..MaxRepos} :
        \A i, j \in 1..Len(l) : i # j => l[i] # l[j]}

\* generate's exclude option
ExcludeOptions == {{}, {NameSite}}

RunClock == [y |-> 2026, m |-> 11, d |-> 1]

RECURSIVE Filtered(_, _)
\* repos.filter((r) => !excludeSet.has(r.name) && !r.name.startsWith("."))
Filtered(repos, excludeSet) ==
    IF repos = <<>> THEN <<>>
    ELSE (IF repos[1].info.name \notin excludeSet
             /\ ~StartsWith(repos[1].info.name, <<".">>)
          THEN <<repos[1]>> ELSE <<>>)
         \o Filtered(Tail(repos), excludeSet)

InitRun ==
    /\ pc = "start"
    /\ variant \in {"cli", "web"}
    /\ now = RunClock
    /\ IdleCall
    /\ listed \in RepoLists
    /\ exclude = {}
    /\ repoList = <<>>
    /\ idx = 0
    /\ results = <<>>
    /\ failed = {}
    /\ format = "json"
    /\ written = NoOutput
    /\ appState = IF variant = "web" THEN "authenticated" ELSE "loading"
    /\ entries = <<>>
    /\ preview = NoOutput
    /\ toggles = 0
    /\ IdleCheck
    /\ IdleEnv

\* generate.ts, 298-313: the options, listRepos, the filter
GenerateStart ==
    /\ pc = "start"
    /\ variant = "cli"
    /\ \E ex \in ExcludeOptions, fmt \in Formats :
          /\ exclude' = ex
          /\ format' = fmt
          /\ repoList' = Filtered(listed, ex)
    /\ idx' = 1
    /\ pc' = "loop"
    /\ UNCHANGED <<variant, now, callVars, listed, results, failed, written,
                   appState, entries, preview, toggles, checkVars, envVars>>

\* an iteration whose failure leaves the loop instead of skipping one repository
GenerateProcessBreaks ==
    /\ pc = "loop"
    /\ variant = "cli"
    /\ idx <= Len(repoList)
    /\ \/ /\ results' = Append(results, processRepoCli(repoList[idx], now))
          /\ idx' = idx + 1
          /\ UNCHANGED failed
       \/ /\ failed' = failed \cup {idx}
          /\ idx' = Len(repoList) + 1
          /\ UNCHANGED results
    /\ UNCHANGED <<pc, variant, now, callVars, listed, exclude, repoList, format,
                   written, appState, entries, preview, toggles, checkVars, envVars>>

\* generate.ts, 319-335: one iteration; processRepo returns or throws
GenerateProcess ==
    /\ pc = "loop"
    /\ variant = "cli"
    /\ idx <= Len(repoList)
    /\ \/ /\ results' = Append(results, processRepoCli(repoList[idx], now))
          /\ UNCHANGED failed
       \/ /\ failed' = failed \cup {idx}
          /\ UNCHANGED results
    /\ idx' = idx + 1
    /\ UNCHANGED <<pc, variant, now, callVars, listed, exclude, repoList, format,
                   written, appState, entries, preview, toggles, checkVars, envVars>>

\* generate.ts, 337-358: sort, format, write
GenerateFinish ==
    /\ pc = "loop"
    /\ variant = "cli"
    /\ idx > Len(repoList)
    /\ results' = SortEntries(results)
    /\ written' = formatOutput(results', format)
    /\ pc' = "done"
    /\ UNCHANGED <<variant, now, callVars, listed, exclude, repoList, idx, failed,
                   format, appState, entries, preview, toggles, checkVars, envVars>>

\* startScan, 59-65: /api/repos answers with the list; or it answers with an
\* error body (repoList is then undefined and repoList.length throws) or the
\* request fails (fetch rejects): startScan ends there, nothing catches
ScanStart ==
    /\ pc = "start"
    /\ variant = "web"
    /\ appState = "authenticated"
    /\ appState' = "scanning"
    /\ \/ /\ repoList' = listed
          /\ idx' = 1
          /\ pc' = "loop"
       \/ /\ pc' = "crashed"
          /\ UNCHANGED <<repoList, idx>>
    /\ UNCHANGED <<variant, now, callVars, listed, exclude, results, failed, format,
                   written, entries, preview, toggles, checkVars, envVars>>

\* startScan, 69-83: one iteration; /api/process answers with the entry, answers
\* without one, or the request fails
ScanProcess ==
    /\ pc = "loop"
    /\ variant = "web"
    /\ idx <= Len(repoList)
    /\ \/ /\ results' = Append(results, processRepoWeb(repoList[idx], now))
          /\ UNCHANGED failed
       \/ /\ failed' = failed \cup {idx}
          /\ UNCHANGED results
    /\ idx' = idx + 1
    /\ UNCHANGED <<pc, variant, now, callVars, listed, exclude, repoList, format,
                   written, appState, entries, preview, toggles, checkVars, envVars>>

\* startScan, 85-93: sort, setEntries, done
ScanFinish ==
    /\ pc = "loop"
    /\ variant = "web"
    /\ idx > Len(repoList)
    /\ results' = SortEntries(results)
    /\ entries' = results'
    /\ appState' = "done"
    /\ pc' = "done"
    /\ UNCHANGED <<variant, now, callVars, listed, exclude, repoList, idx, failed,
                   format, written, preview, toggles, checkVars, envVars>>

NextRun ==
    \/ GenerateStart
    \/ GenerateProcess
    \/ GenerateFinish
    \/ ScanStart
    \/ ScanProcess
    \/ ScanFinish

SpecRun == InitRun /\ [][NextRun]_vars

\* every request completes, and the code after an await then runs
SpecRunFair ==
    /\ SpecRun
    /\ WF_vars(ScanStart)
    /\ WF_vars(ScanProcess)
    /\ WF_vars(ScanFinish)

-----------------------------------------------------------------------------
(* The web page after a scan: toggles, preview, download *)

MaxToggles == 2

\* the repositories of the scans the page starts from
Shown == {HostArm, HostDemo, HostOldLib}

ShownLists == {l \in RepoLists : \A i \in 1..Len(l) : l[i] \in Shown}

RECURSIVE Scanned(_, _)
\* the entries /api/process returns for a list of repositories
Scanned(list, clock) ==
    IF list = <<>> THEN <<>>
    ELSE <<processRepoWeb(list[1], clock)>> \o Scanned(Tail(list), clock)

\* the page once startScan has finished, every repository processed
InitUi ==
    /\ pc = "done"
    /\ variant = "web"
    /\ now = RunClock
    /\ IdleCall
    /\ listed \in ShownLists
    /\ exclude = {}
    /\ repoList = listed
    /\ idx = Len(listed) + 1
    /\ results = SortEntries(Scanned(listed, now))
    /\ failed = {}
    /\ format = "json"
    /\ written = NoOutput
    /\ appState = "done"
    /\ entries = results
    /\ preview = NoOutput
    /\ toggles = 0
    /\ IdleCheck
    /\ IdleEnv

\* a callback that also resets the entry's featured flag
withEntryReset(prev, index) ==
    [prev EXCEPT ![index].enabled = Bool(~Truthy(@)), ![index].featured = Undefined]

\* part_000, 97-101: the callback toggleEntry passes to setEntries
withEnabledToggled(prev, index) ==
    [prev EXCEPT ![index].enabled = Bool(~Truthy(@))]

\* part_000, 105-109: the callback toggleFeatured passes to setEntries
withFeaturedToggled(prev, index) ==
    [prev EXCEPT ![index].featured = Bool(~Truthy(@))]

\* part_000, 96-102
toggleEntry(index) ==
    /\ appState = "done"
    /\ toggles < MaxToggles
    /\ index \in 1..Len(entries)
    /\ entries' = withEnabledToggled(entries, index)
    /\ toggles' = toggles + 1
    /\ UNCHANGED <<pc, variant, now, callVars, listed, exclude, repoList, idx,
                   results, failed, format, written, appState, preview, checkVars, envVars>>

\* part_000, 104-110
toggleFeatured(index) ==
    /\ appState = "done"
    /\ toggles < MaxToggles
    /\ index \in 1..Len(entries)
    /\ entries' = withFeaturedToggled(entries, index)
    /\ toggles' = toggles + 1
    /\ UNCHANGED <<pc, variant, now, callVars, listed, exclude, repoList, idx,
                   results, failed, format, written, appState, preview, checkVars, envVars>>

\* part_000, 128-135
showPreview(fmt) ==
    /\ appState = "done"
    /\ format' = fmt
    /\ preview' = formatEntries(entries, fmt)
    /\ UNCHANGED <<pc, variant, now, callVars, listed, exclude, repoList, idx,
                   results, failed, written, appState, entries, toggles, checkVars, envVars>>

\* part_000, 112-126: the content of the file the browser saves
download(fmt) ==
    /\ appState = "done"
    /\ written' = formatEntries(entries, fmt)
    /\ UNCHANGED <<pc, variant, now, callVars, listed, exclude, repoList, idx,
                   results, failed, format, appState, entries, preview, toggles,
                   checkVars, envVars>>

ToggleEntry == \E index \in 1..MaxRepos : toggleEntry(index)

ToggleFeatured == \E index \in 1..MaxRepos : toggleFeatured(index)

ShowPreview == \E fmt \in Formats : showPreview(fmt)

Download == \E fmt \in Formats : download(fmt)

NextUi ==
    \/ ToggleEntry
    \/ ToggleFeatured
    \/ ShowPreview
    \/ Download

SpecUi == InitUi /\ [][NextUi]_vars

-----------------------------------------------------------------------------
(* validateConfig on a parsed document *)

NoMedia == [k \in MediaKeys |-> Undefined]

Game(type, url) == Obj([type |-> type, url |-> url])

MediaValues ==
    {Undefined,
     Obj([NoMedia EXCEPT !.video = Str(UrlHome)]),
     Obj([NoMedia EXCEPT !.video = Str(NotAUrl)]),
     Obj([NoMedia EXCEPT !.game = Game(L("itch"), Str(UrlHome))]),
     Obj([NoMedia EXCEPT !.game = Game(L("flash"), Str(NotAUrl))]),
     Obj([NoMedia EXCEPT !.game = Game(L("itch"), Undefined)])}

LinksValues ==
    {Undefined, Obj([liveDemo |-> Str(NotAUrl), docs |-> Str(NotAUrl)])}

\* the {"dateCompleted": "2024/03"} of the scenario
SlashDoc == Obj([NoDoc EXCEPT !["dateCompleted"] = Str(DateSlash)])

Documents ==
    {Null, Num(5), L("text"), Arr(<<>>)}
    \cup {Obj([NoDoc EXCEPT !["name"] = n, !["dateCompleted"] = d, !["status"] = st,
                            !["featured"] = f, !["technologies"] = t,
                            !["media"] = m, !["links"] = l, !["github"] = g]) :
            n \in {Undefined, EmptyStr, L("Robot Arm"), Num(5)},
            d \in {Undefined, Str(Date2023), Str(DateSlash), Num(2024)},
            st \in {Undefined, L("Completed"), L("Bogus")},
            f \in {Undefined, Bool(TRUE), L("yes")},
            t \in {Undefined, Arr(<<L("ROS2")>>), Arr(<<Num(1), L("ROS2"), Num(2)>>)},
            m \in MediaValues,
            l \in LinksValues,
            g \in {Undefined, L("https://elsewhere")}}

InitValidate ==
    /\ pc = "start"
    /\ variant = "cli"
    /\ now = RunClock
    /\ IdleCall
    /\ IdleRun
    /\ document \in Documents
    /\ verdict = Undefined
    /\ IdleEnv

\* github.ts, 137-150
Validate ==
    /\ pc = "start"
    /\ verdict' = validateConfig(document)
    /\ pc' = "validated"
    /\ UNCHANGED <<variant, now, callVars, runVars, document, envVars>>

NextValidate == Validate

SpecValidate == InitValidate /\ [][NextValidate]_vars

-----------------------------------------------------------------------------
(* The local detectors: README parser, assets, technologies, metadata *)

\* line.includes(sub)
Includes(line, sub) ==
    \E i \in 1..(Len(line) - Len(sub) + 1) : SubSeq(line, i, i + Len(sub) - 1) = sub

isBadge(line) ==
    \/ StartsWith(line, <<"[", "!", "[">>)
    \/ StartsWith(line, <<"!", "[">>) /\ Includes(line, <<"b", "a", "d", "g", "e">>)

isHeading(line) == StartsWith(line, <<"#">>)

isHtml(line) == StartsWith(line, <<"<">>) /\ ~StartsWith(line, <<"<", "a">>)

isSkippable(line) ==
    LET trimmed == Trim(line) IN
    trimmed = <<>> \/ isBadge(trimmed) \/ isHeading(trimmed) \/ isHtml(trimmed)

RECURSIVE StripHashes(_)
\* line.replace(/^#+\s*/, "")
StripHashes(line) ==
    IF line # <<>> /\ line[1] = "#" THEN StripHashes(Tail(line)) ELSE TrimStart(line)

SectionHeadings ==
    {<<"d", "e", "s", "c", "r", "i", "p", "t", "i", "o", "n">>,
     <<"a", "b", "o", "u", "t">>,
     <<"o", "v", "e", "r", "v", "i", "e", "w">>}

RECURSIVE SectionLines(_, _, _)
\* the loop of extractSection
SectionLines(lines, capturing, captured) ==
    IF lines = <<>> THEN captured
    ELSE LET line == lines[1]
             named == ToLowerCase(Trim(StripHashes(line))) \in SectionHeadings
         IN IF isHeading(line) /\ named
            THEN SectionLines(Tail(lines), TRUE, captured)
            ELSE IF isHeading(line) /\ capturing THEN captured
            ELSE SectionLines(Tail(lines), capturing,
                              IF capturing /\ Trim(line) # <<>>
                              THEN Append(captured, Trim(line)) ELSE captured)

\* Null or the section's text
extractSection(content) ==
    LET captured == SectionLines(Split(content, "\n"), FALSE, <<>>) IN
    IF Len(captured) > 0 THEN Str(Join(captured, <<" ">>)) ELSE Null

RECURSIVE ParagraphLines(_, _, _)
\* the loop of extractFirstParagraph
ParagraphLines(lines, pastTitle, paragraph) ==
    IF lines = <<>> THEN paragraph
    ELSE LET line == lines[1] IN
         IF ~pastTitle /\ isHeading(line)
         THEN ParagraphLines(Tail(lines), TRUE, paragraph)
         ELSE IF ~pastTitle /\ isSkippable(line)
         THEN ParagraphLines(Tail(lines), FALSE, paragraph)
         ELSE IF isSkippable(line)
         THEN IF Len(paragraph) > 0 THEN paragraph
              ELSE ParagraphLines(Tail(lines), TRUE, paragraph)
         ELSE ParagraphLines(Tail(lines), TRUE, Append(paragraph, Trim(line)))

\* Null or the paragraph's text
extractFirstParagraph(content) ==
    LET paragraph == ParagraphLines(Split(content, "\n"), FALSE, <<>>) IN
    IF Len(paragraph) > 0 THEN Str(Join(paragraph, <<" ">>)) ELSE Null

\* firstSentence(text), maxLen = 120
firstSentence(text) ==
    LET matched == SentenceMatch(text)
        sentence == IF matched # <<>> THEN Trim(matched) ELSE text
    IN IF Len(sentence) > ShortCut
       THEN Slice(sentence, ShortCut - 3) \o <<".", ".", ".">>
       ELSE sentence

\* parseReadme on the README's content, Null when there is no readable README
parseReadme(content) ==
    LET description ==
            IF content = Null THEN Null
            ELSE Or(extractSection(content.s), extractFirstParagraph(content.s))
    IN IF ~Truthy(description)
       THEN [description |-> Undefined, shortDescription |-> Undefined]
       ELSE [description |-> description,
             shortDescription |-> Str(firstSentence(description.s))]

THUMBNAIL_PATTERNS ==
    <<<<"t", "h", "u", "m", "b">>, <<"c", "o", "v", "e", "r">>, <<"h", "e", "r", "o">>,
      <<"b", "a", "n", "n", "e", "r">>, <<"p", "r", "e", "v", "i", "e", "w">>>>

\* img.split("/").pop() || ""
FileName(path) == LET parts == Split(path, "/") IN parts[Len(parts)]

\* pattern.test(filename), the pattern a prefix matched without regard to case
TestPattern(pattern, img) == StartsWith(ToLowerCase(FileName(img.s)), pattern)

RECURSIVE FindImage(_, _)
\* images.find(...): the first image the pattern matches, else Undefined
FindImage(images, pattern) ==
    IF images = <<>> THEN Undefined
    ELSE IF TestPattern(pattern, images[1]) THEN images[1]
    ELSE FindImage(Tail(images), pattern)

\* a choice that takes the first image any pattern matches
pickAnyPattern(images) ==
    LET hits == {i \in 1..Len(images) :
                   \E p \in 1..Len(THUMBNAIL_PATTERNS) :
                      TestPattern(THUMBNAIL_PATTERNS[p], images[i])}
    IN IF Len(images) = 0 THEN Undefined
       ELSE IF hits = {} THEN images[1]
       ELSE images[CHOOSE i \in hits : \A j \in hits : i <= j]

RECURSIVE PickByPattern(_, _)
\* the loop over THUMBNAIL_PATTERNS, then the fallback
PickByPattern(images, patterns) ==
    IF patterns = <<>> THEN images[1]
    ELSE LET match == FindImage(images, patterns[1])
         IN IF Truthy(match) THEN match ELSE PickByPattern(images, Tail(patterns))

\* images: a sequence of JS strings; the result is one of them or Undefined
pickThumbnail(images) ==
    IF Len(images) = 0 THEN Undefined ELSE PickByPattern(images, THUMBNAIL_PATTERNS)

MODEL_EXTENSIONS == MODEL_EXTS

IMAGE_EXTENSIONS == IMAGE_EXTS

\* the local detector's image directories, "public" among them
LOCAL_IMAGE_DIRS ==
    {<<"d", "o", "c", "s">>, <<"a", "s", "s", "e", "t", "s">>, <<"i", "m", "a", "g", "e", "s">>,
     <<"s", "c", "r", "e", "e", "n", "s", "h", "o", "t", "s">>, <<"p", "u", "b", "l", "i", "c">>, <<"m", "e", "d", "i", "a">>}

SKIP_DIRS ==
    {<<"n", "o", "d", "e", "_", "m", "o", "d", "u", "l", "e", "s">>, <<".", "g", "i", "t">>, <<"d", "i", "s", "t">>, <<"b", "u", "i", "l", "d">>,
     <<"_", "_", "p", "y", "c", "a", "c", "h", "e", "_", "_">>, <<".", "n", "e", "x", "t">>, <<".", "c", "a", "c", "h", "e">>,
     <<"v", "e", "n", "d", "o", "r">>, <<".", "v", "e", "n", "v">>, <<"v", "e", "n", "v">>}

\* path.extname: from the last dot of the name, empty without a dot or when the
\* only dot starts the name
ExtName(name) ==
    LET dots == {i \in 1..Len(name) : name[i] = "."}
    IN IF dots \subseteq {1} THEN <<>>
       ELSE SubSeq(name, CHOOSE i \in dots : \A j \in dots : j <= i, Len(name))

\* walkDir reaches the file: no name on its path is skipped, and in the walk
\* for images its top-level directory, if it has one, is an image directory
Walked(path, restricted) ==
    LET names == Split(path, "/") IN
    /\ \A i \in 1..Len(names) : names[i] \notin SKIP_DIRS
    /\ (restricted /\ Len(names) > 1) => ToLowerCase(names[1]) \in LOCAL_IMAGE_DIRS

\* files: the directory's files in readdir order, as paths from its root
walkDir(files, exts, restricted) ==
    SelectSeq(files, LAMBDA f :
        /\ ToLowerCase(ExtName(FileName(f.s))) \in exts
        /\ Walked(f.s, restricted))

\* part_003, 70-87
detectAssets(files) ==
    LET images == walkDir(files, IMAGE_EXTENSIONS, TRUE)
    IN [models |-> walkDir(files, MODEL_EXTENSIONS, FALSE),
        images |-> images,
        thumbnail |-> pickThumbnail(images)]

\* tech-detector.ts: tech and langs are sets of names
inferCategoryLocal(tech, langs) ==
    IF Has(tech, {"Three.js", "React Three Fiber"}) THEN L("Web 3D")
    ELSE IF "C#" \in langs THEN L("Game Development")
    ELSE IF "Bevy" \in tech THEN L("Game Development")
    ELSE IF Has(tech, {"TensorFlow", "PyTorch", "scikit-learn", "Keras"})
    THEN L("Machine Learning")
    ELSE IF "Arduino" \in langs THEN L("Robotics")
    ELSE IF "React Native" \in tech THEN L("Mobile App")
    ELSE IF Has(langs, {"Swift", "Kotlin", "Dart"}) THEN L("Mobile App")
    ELSE IF "Electron" \in tech THEN L("Desktop App")
    ELSE IF Has(tech, {"React", "Vue", "Angular", "Svelte", "Next.js", "Nuxt"})
    THEN L("Web App")
    ELSE IF Has(tech, {"Express", "Fastify", "Koa", "Flask", "Django", "FastAPI"})
    THEN L("Backend/API")
    ELSE IF "Rust" \in langs THEN L("Systems Programming")
    ELSE IF "Go" \in langs THEN L("Backend/API")
    ELSE IF "Python" \in langs THEN L("Python")
    ELSE IF Has(langs, {"C++", "C"}) THEN L("Systems Programming")
    ELSE L("Software")

\* metadata-detector.ts: lastCommit is Null or the text of the last commit's date
inferStatusLocal(lastCommit, clock) ==
    IF ~Truthy(lastCommit) THEN L("Completed")
    ELSE LET date == ParseDate(lastCommit.s)
             oneYearAgo == [clock EXCEPT !.y = clock.y - 1]
         IN IF date.valid /\ DayNumber(date) < DayNumber(oneYearAgo)
            THEN L("Archived")
            ELSE L("Completed")

-----------------------------------------------------------------------------
(* The update command *)

\* technologies and languages detectTechStack can find in a directory
TechLists ==
    {<<>>, <<"React">>, <<"Three.js", "React">>, <<"TensorFlow">>, <<"Express">>}

LanguageSets == {{}, {"C#"}, {"Python"}, {"Rust"}, {"C"}, {"TypeScript", "Go"}}

Labels(names) == [i \in 1..Len(names) |-> L(names[i])]

\* what the four detectors return for a directory (detectMetadata returns no
\* description)
Detections ==
    {[ran |-> TRUE,
      tech |-> [technologies |-> Labels(t), languages |-> l,
                category |-> inferCategoryLocal(Range(t), l)],
      assets |-> [models |-> m, images |-> i, thumbnail |-> pickThumbnail(i)],
      readme |-> parseReadme(r),
      meta |-> [description |-> Undefined, shortDescription |-> Undefined]] :
        t \in TechLists, l \in LanguageSets,
        m \in {<<>>, <<Str(PathStl)>>},
        i \in {<<>>, <<Str(PathPng)>>},
        r \in {Null, Str(ReadmeText)}}

\* the other fields of a .portfolio.json, all set
FilledDoc ==
    [NamedDoc EXCEPT !["status"] = L("In Progress"), !["dateCompleted"] = Str(Date2023),
                     !["thumbnail"] = L("docs/old.png"), !["featured"] = Bool(TRUE),
                     !["exclude"] = Bool(FALSE), !["images"] = Arr(<<L("docs/old.png")>>),
                     !["links"] = Obj([liveDemo |-> Str(UrlHome), docs |-> Undefined]),
                     !["media"] = Obj([video |-> Str(UrlHome), website |-> Undefined,
                                       pdf |-> Undefined, game |-> Undefined]),
                     !["github"] = L("https://elsewhere")]

\* the valid documents update can find
ExistingDocs ==
    {Obj([base EXCEPT !["category"] = c, !["technologies"] = t,
                      !["shortDescription"] = d, !["description"] = d,
                      !["models"] = m]) :
        base \in {NamedDoc, FilledDoc},
        c \in {Undefined, EmptyStr, L("Hardware")},
        t \in {Undefined, Arr(<<>>), Arr(<<L("ROS2")>>)},
        d \in {Undefined, EmptyStr, L("A robot arm.")},
        m \in {Undefined, Arr(<<L("cad/old.stl")>>)}}

\* the states of .portfolio.json in the directory
ConfigFiles ==
    {[kind |-> "absent"], [kind |-> "unreadable"], [kind |-> "invalid"],
     Json(Null), Json(Obj(NoDoc)),
     Json(Obj([NoDoc EXCEPT !["dateCompleted"] = Str(DateSlash)]))}
    \cup {Json(d) : d \in ExistingDocs}

\* an update that clears the thumbnail it finds in the file
updatedClearsThumbnail(existing, d) ==
    [k \in SchemaKeys |->
        IF k = "thumbnail"
        THEN IF ~Truthy(existing.thumbnail) THEN d.assets.thumbnail ELSE Undefined
        ELSE existing[k]]

\* cli.ts, 145-165: existing is the validated document
updated(existing, d) ==
    [k \in SchemaKeys |->
        CASE k = "technologies" ->
               IF ~Truthy(existing.technologies) \/ Len(existing.technologies.a) = 0
               THEN IF Len(d.tech.technologies) > 0 THEN Arr(d.tech.technologies)
                    ELSE Undefined
               ELSE existing.technologies
          [] k = "category" ->
               IF ~Truthy(existing.category) THEN d.tech.category ELSE existing.category
          [] k = "shortDescription" ->
               IF ~Truthy(existing.shortDescription)
               THEN Or(d.readme.shortDescription, d.meta.shortDescription)
               ELSE existing.shortDescription
          [] k = "description" ->
               IF ~Truthy(existing.description)
               THEN Or(d.readme.description, d.meta.description)
               ELSE existing.description
          [] k = "models" ->
               IF Len(d.assets.models) > 0 THEN Arr(d.assets.models) ELSE Undefined
          [] k = "images" ->
               IF Len(d.assets.images) > 0 THEN Arr(d.assets.images) ELSE Undefined
          [] k = "thumbnail" ->
               IF ~Truthy(existing.thumbnail) THEN d.assets.thumbnail
               ELSE existing.thumbnail
          [] OTHER -> existing[k]]

\* the file writePortfolioConfig leaves: JSON.stringify drops what is undefined
writePortfolioConfig(config) ==
    Json(Obj([k \in DocKeys |-> IF k \in SchemaKeys THEN config[k] ELSE Undefined]))

InitUpdate ==
    /\ pc = "start"
    /\ variant = "cli"
    /\ now = RunClock
    /\ IdleCall
    /\ IdleRun
    /\ IdleCheck
    /\ remote = NotFetched
    /\ workdir = NotFetched
    /\ configFile \in ConfigFiles
    /\ detected = NotDetected
    /\ exitCode = -1

\* a reader that takes a missing file for an empty document
ReadMissingAsEmpty(file) ==
    IF file.kind = "absent"
    THEN [ok |-> TRUE, data |-> [k \in SchemaKeys |-> Undefined]]
    ELSE IF file.kind = "json" /\ validateConfig(file.value).success
    THEN [ok |-> TRUE, data |-> validateConfig(file.value).data]
    ELSE [ok |-> FALSE, data |-> Undefined]

\* github.ts, 162-170: readFile, JSON.parse and portfolioConfigSchema.parse each
\* throw; ok is FALSE when one of them did
readPortfolioConfig(file) ==
    IF file.kind = "json" /\ validateConfig(file.value).success
    THEN [ok |-> TRUE, data |-> validateConfig(file.value).data]
    ELSE [ok |-> FALSE, data |-> Undefined]

\* cli.ts, 122-134: a failed read ends the command with exit code 1
UpdateRead ==
    /\ pc = "start"
    /\ LET existing == readPortfolioConfig(configFile) IN
         IF existing.ok
         THEN /\ document' = Obj(existing.data)
              /\ pc' = "read"
              /\ UNCHANGED exitCode
         ELSE /\ pc' = "failed"
              /\ exitCode' = 1
              /\ UNCHANGED document
    /\ UNCHANGED <<variant, now, callVars, runVars, verdict, remote, configFile, workdir,
                   detected>>

\* cli.ts, 138-143
UpdateScan ==
    /\ pc = "read"
    /\ detected' \in Detections
    /\ pc' = "scanned"
    /\ UNCHANGED <<variant, now, callVars, runVars, checkVars, remote, configFile,
                   workdir, exitCode>>

\* cli.ts, 145-168
UpdateWrite ==
    /\ pc = "scanned"
    /\ configFile' = writePortfolioConfig(updated(document.o, detected))
    /\ exitCode' = 0
    /\ pc' = "updated"
    /\ UNCHANGED <<variant, now, callVars, runVars, checkVars, remote, workdir,
                   detected>>

NextUpdate ==
    \/ UpdateRead
    \/ UpdateScan
    \/ UpdateWrite

SpecUpdate == InitUpdate /\ [][NextUpdate]_vars

-----------------------------------------------------------------------------
(* processRepo with its fetches *)

\* what the API answers to repos.getContent and git.getTree: a file (text is its
\* decoded content, blank when the content is the empty string), a directory
\* listing (no content field), a tree, or a request that throws
Failure(status) == [kind |-> "error", status |-> status]

FileAnswer(text) == [kind |-> "file", blank |-> FALSE, text |-> text]

BlankFile == [kind |-> "file", blank |-> TRUE, text |-> Null]

Failures == {Failure(404), Failure(401), Failure(0)}

ConfigAnswers ==
    Failures
    \cup {[kind |-> "directory"], BlankFile, FileAnswer([kind |-> "invalid"]),
          FileAnswer(Json(Obj(NamedDoc))), FileAnswer(Json(ScenarioDoc))}

ReadmeAnswers == Failures \cup {BlankFile, FileAnswer(Str(ReadmeText))}

TreeAnswers ==
    Failures
    \cup {[kind |-> "tree", items |-> <<>>],
          [kind |-> "tree",
           items |-> <<[type |-> "tree", path |-> Str(<<"c", "a", "d">>)],
                       [type |-> "blob", path |-> Str(PathStl)],
                       [type |-> "blob", path |-> Str(PathPng)]>>]}

\* a getFileContent whose catch lets the error through
getFileContentRethrows(answer) ==
    IF answer.kind = "error" THEN [raised |-> TRUE, value |-> Null]
    ELSE IF answer.kind = "file" /\ ~answer.blank
    THEN [raised |-> FALSE, value |-> answer.text]
    ELSE [raised |-> FALSE, value |-> Null]

\* github.ts, 54-72: raised tells whether the call threw
getFileContent(answer) ==
    IF answer.kind = "file" /\ ~answer.blank
    THEN [raised |-> FALSE, value |-> answer.text]
    ELSE [raised |-> FALSE, value |-> Null]

RECURSIVE BlobPaths(_)
\* data.tree.filter((item) => item.type === "blob" && item.path).map(...)
BlobPaths(items) ==
    IF items = <<>> THEN <<>>
    ELSE (IF items[1].type = "blob" /\ Truthy(items[1].path)
          THEN <<items[1].path>> ELSE <<>>) \o BlobPaths(Tail(items))

\* github.ts, 74-92
getRepoTree(answer) ==
    IF answer.kind = "tree"
    THEN [raised |-> FALSE, value |-> BlobPaths(answer.items)]
    ELSE [raised |-> FALSE, value |-> <<>>]

\* the repository as processRepo sees it after its fetches
Fetched(info, answers) ==
    LET configRaw == getFileContent(answers.config).value
    IN [info |-> info,
        config |-> IF configRaw = Null THEN NoConfig ELSE configRaw,
        readme |-> getFileContent(answers.readme).value,
        tree |-> getRepoTree(answers.tree).value]

\* a fetch processRepo makes threw: .portfolio.json always, README.md and the
\* tree on the auto-detection path
Raises(answers) ==
    \/ getFileContent(answers.config).raised
    \/ /\ LET h == Fetched(BaseInfo, answers)
          IN ~(h.config.kind = "json" /\ validateConfig(h.config.value).success)
       /\ \/ getFileContent(answers.readme).raised
          \/ getRepoTree(answers.tree).raised

InitFetch ==
    /\ pc = "start"
    /\ variant = "cli"
    /\ now = RunClock
    /\ host \in {[info |-> r.info] : r \in BaseRepos}
    /\ entry = Undefined
    /\ emitted = Undefined
    /\ IdleRun
    /\ IdleCheck
    /\ remote \in [config : ConfigAnswers, readme : ReadmeAnswers, tree : TreeAnswers]
    /\ workdir = NotFetched
    /\ configFile = NotFetched
    /\ detected = NotDetected
    /\ exitCode = -1

\* generate.ts, 126-213, with the calls of github.ts it makes
FetchAndProcess ==
    /\ pc = "start"
    /\ IF Raises(remote)
       THEN /\ pc' = "raised"
            /\ UNCHANGED <<host, entry>>
       ELSE /\ host' = Fetched(host.info, remote)
            /\ entry' = processRepoCli(host', now)
            /\ pc' = "processed"
    /\ UNCHANGED <<variant, now, emitted, runVars, checkVars, envVars>>

NextFetch == FetchAndProcess

SpecFetch == InitFetch /\ [][NextFetch]_vars

-----------------------------------------------------------------------------
(* processRepo over file listings *)

MaxFiles == 3

PathUpperStl ==
    <<"c", "a", "d", "/", "A", "R", "M", ".", "S", "T", "L">>

PathUpperJpg ==
    <<"m", "e", "d", "i", "a", "/", "S", "h", "o", "t", ".", "J", "P", "G">>

PathNoDot ==
    <<"s", "t", "l">>

PathOther ==
    <<"d", "o", "c", "s", "/", "n", "o", "t", "e", "s", ".", "m", "d">>

Paths ==
    {Str(PathPng), Str(PathIcon), Str(PathStl), Str(PathUpperStl), Str(PathUpperJpg),
     Str(PathNoDot), Str(PathOther)}

\* the file listings of at most MaxFiles paths
Listings == UNION {[1..n -> Paths] : n \in 0..MaxFiles}

InitAssets ==
    /\ pc = "start"
    /\ variant \in {"cli", "web"}
    /\ now = RunClock
    /\ host \in {HostOf([BaseRepo EXCEPT !.tree = t], NoConfig) : t \in Listings}
    /\ entry = Undefined
    /\ emitted = Undefined
    /\ IdleRun
    /\ IdleCheck
    /\ IdleEnv

SpecAssets == InitAssets /\ [][Next]_vars

-----------------------------------------------------------------------------
(* The JSON text of the web formatter, and its parse *)

\* the text as its tokens: punctuation and literals, strings with their escapes
Punct(c) == [k |-> "p", p |-> c]

IsPunct(tok, c) == tok.k = "p" /\ tok.p = c

\* a writer that copies every character as it is
RawChar(c) == <<c>>

\* JSON.stringify: the escape of one character of a string
EscapeChar(c) ==
    IF c = "\"" THEN <<"\\", "\"">>
    ELSE IF c = "\\" THEN <<"\\", "\\">>
    ELSE IF c = "\n" THEN <<"\\", "n">>
    ELSE <<c>>

RECURSIVE Escape(_)
Escape(s) == IF s = <<>> THEN <<>> ELSE EscapeChar(s[1]) \o Escape(Tail(s))

RECURSIVE Unescape(_)
\* JSON.parse: the characters of a string literal
Unescape(s) ==
    IF s = <<>> THEN <<>>
    ELSE IF s[1] = "\\"
    THEN <<IF s[2] = "n" THEN "\n" ELSE s[2]>> \o Unescape(SubSeq(s, 3, Len(s)))
    ELSE <<s[1]>> \o Unescape(Tail(s))

StringToken(s) == [k |-> "s", s |-> Escape(s)]

\* the order in which the members of an object are written
KeyOrder ==
    <<"projects", "name", "shortDescription", "description", "category",
      "technologies", "status", "dateCompleted", "featured", "thumbnail", "github",
      "links", "media", "models", "images", "exclude", "enabled", "liveDemo", "docs",
      "video", "website", "pdf", "game", "type", "url">>

\* JSON.stringify leaves out the members that are undefined
PresentKeys(o) == SelectSeq(KeyOrder, LAMBDA key : key \in DOMAIN o /\ o[key] # Undefined)

RECURSIVE Serialize(_), SerializeElements(_), SerializeMembers(_, _)
\* JSON.stringify(value)
Serialize(v) ==
    CASE v.t = "string" -> <<StringToken(v.s)>>
      [] v.t = "boolean" -> <<Punct(IF v.b THEN "true" ELSE "false")>>
      [] v.t = "number" -> <<[k |-> "n", n |-> v.n]>>
      [] v.t = "array" -> <<Punct("[")>> \o SerializeElements(v.a) \o <<Punct("]")>>
      [] v.t = "object" ->
           <<Punct("{")>> \o SerializeMembers(v.o, PresentKeys(v.o)) \o <<Punct("}")>>
      [] OTHER -> <<Punct("null")>>

SerializeElements(a) ==
    IF a = <<>> THEN <<>>
    ELSE Serialize(a[1])
         \o (IF Len(a) > 1 THEN <<Punct(",")>> \o SerializeElements(Tail(a)) ELSE <<>>)

SerializeMembers(o, keys) ==
    IF keys = <<>> THEN <<>>
    ELSE <<StringToken(<<keys[1]>>), Punct(":")>> \o Serialize(o[keys[1]])
         \o (IF Len(keys) > 1 THEN <<Punct(",")>> \o SerializeMembers(o, Tail(keys))
             ELSE <<>>)

\* the object with the members read, a later member replacing an earlier one
FromMembers(members) ==
    [key \in {members[j][1] : j \in 1..Len(members)} |->
        LET last == CHOOSE j \in 1..Len(members) :
                       /\ members[j][1] = key
                       /\ \A j2 \in 1..Len(members) : members[j2][1] = key => j2 <= j
        IN members[last][2]]

RECURSIVE ParseValue(_, _), ParseElements(_, _, _), ParseMembers(_, _, _)
\* JSON.parse from token i on: the value and the place after it
ParseValue(ts, i) ==
    LET tok == ts[i] IN
    CASE tok.k = "s" -> [v |-> Str(Unescape(tok.s)), n |-> i + 1]
      [] tok.k = "n" -> [v |-> Num(tok.n), n |-> i + 1]
      [] IsPunct(tok, "true") -> [v |-> Bool(TRUE), n |-> i + 1]
      [] IsPunct(tok, "false") -> [v |-> Bool(FALSE), n |-> i + 1]
      [] IsPunct(tok, "[") ->
           IF IsPunct(ts[i + 1], "]") THEN [v |-> Arr(<<>>), n |-> i + 2]
           ELSE ParseElements(ts, i + 1, <<>>)
      [] IsPunct(tok, "{") ->
           IF IsPunct(ts[i + 1], "}") THEN [v |-> Obj(<<>>), n |-> i + 2]
           ELSE ParseMembers(ts, i + 1, <<>>)
      [] OTHER -> [v |-> Null, n |-> i + 1]

ParseElements(ts, i, read) ==
    LET r == ParseValue(ts, i) IN
    IF IsPunct(ts[r.n], ",") THEN ParseElements(ts, r.n + 1, Append(read, r.v))
    ELSE [v |-> Arr(Append(read, r.v)), n |-> r.n + 1]

ParseMembers(ts, i, read) ==
    LET key == Unescape(ts[i].s)[1]
        r == ParseValue(ts, i + 2)
        members == Append(read, <<key, r.v>>)
    IN IF IsPunct(ts[r.n], ",") THEN ParseMembers(ts, r.n + 1, members)
       ELSE [v |-> Obj(FromMembers(members)), n |-> r.n + 1]

JsonParse(text) == ParseValue(text, 1).v

\* toJson (portfolio.ts, 219-222)
toJson(list) ==
    Serialize(Obj([projects |-> Arr([i \in 1..Len(list) |-> Obj(toJsonEntry(list[i]))])]))

\* formatEntries(entries, "json") as text
formatEntriesJson(list) == toJson(Enabled(list))

MaxEntries == 2

NameQuoted == <<"A", " ", "\"", "B", "\"">>

NameBackslash == <<"C", "\\", "n">>

\* entries of the page, switched on or off, under names that need escapes
PageEntries ==
    {[processRepoWeb(h, RunClock) EXCEPT !["name"] = n, !["enabled"] = Bool(on)] :
        h \in {HostArm, HostDemo},
        n \in {L("Robot Arm"), Str(NameQuoted), Str(NameBackslash)},
        on \in BOOLEAN}

InitFormat ==
    /\ pc = "done"
    /\ variant = "web"
    /\ now = RunClock
    /\ IdleCall
    /\ listed = <<>> /\ exclude = {} /\ repoList = <<>> /\ idx = 0
    /\ results = <<>> /\ failed = {} /\ format = "json" /\ written = NoOutput
    /\ appState = "done"
    /\ entries \in UNION {[1..n -> PageEntries] : n \in 0..MaxEntries}
    /\ preview = NoOutput
    /\ toggles = 0
    /\ IdleCheck
    /\ IdleEnv

\* portfolio.ts, 264-271, format "json": the text handed to the reader
FormatJson ==
    /\ pc = "done"
    /\ written' = [format |-> "json", text |-> formatEntriesJson(entries)]
    /\ pc' = "formatted"
    /\ UNCHANGED <<variant, now, callVars, listed, exclude, repoList, idx, results,
                   failed, format, appState, entries, preview, toggles, checkVars,
                   envVars>>

\* the reader parses the text
ParseJson ==
    /\ pc = "formatted"
    /\ preview' = [format |-> "parsed", value |-> JsonParse(written.text)]
    /\ pc' = "parsed"
    /\ UNCHANGED <<variant, now, callVars, listed, exclude, repoList, idx, results,
                   failed, format, written, appState, entries, toggles, checkVars,
                   envVars>>

NextFormat == FormatJson \/ ParseJson

SpecFormat == InitFormat /\ [][NextFormat]_vars

-----------------------------------------------------------------------------
(* The local asset detector on a directory *)

PathCover ==
    <<"d", "o", "c", "s", "/", "C", "o", "v", "e", "r", ".", "p", "n", "g">>

PathThumb ==
    <<"a", "s", "s", "e", "t", "s", "/", "t", "h", "u", "m", "b", "-", "1",
      ".", "j", "p", "g">>

PathHero ==
    <<"p", "u", "b", "l", "i", "c", "/", "h", "e", "r", "o", ".", "s", "v",
      "g">>

PathSrcPreview ==
    <<"s", "r", "c", "/", "p", "r", "e", "v", "i", "e", "w", ".", "p", "n",
      "g">>

PathBanner ==
    <<"b", "a", "n", "n", "e", "r", ".", "g", "i", "f">>

LocalPaths ==
    {Str(PathPng), Str(PathCover), Str(PathThumb), Str(PathHero), Str(PathSrcPreview),
     Str(PathBanner)}

\* a directory: its files in readdir order, the homepage of its package.json,
\* and how often its files were changed
Directory(files, homepage) == [files |-> files, homepage |-> homepage, changes |-> 0]

InitThumb ==
    /\ pc = "start"
    /\ variant = "cli"
    /\ now = RunClock
    /\ IdleCall
    /\ IdleRun
    /\ IdleCheck
    /\ remote = NotFetched
    /\ configFile = NotFetched
    /\ workdir \in {Directory(l, Undefined) :
                       l \in UNION {[1..n -> LocalPaths] : n \in 0..MaxFiles}}
    /\ detected = NotDetected
    /\ exitCode = -1

\* part_003, 70-87
DetectAssets ==
    /\ pc = "start"
    /\ detected' = [ran |-> TRUE, assets |-> detectAssets(workdir.files)]
    /\ pc' = "scanned"
    /\ UNCHANGED <<variant, now, callVars, runVars, checkVars, remote, configFile,
                   workdir, exitCode>>

NextThumb == DetectAssets

SpecThumb == InitThumb /\ [][NextThumb]_vars

-----------------------------------------------------------------------------
(* README extraction, remote and local, on long and short first sentences *)

\* a first sentence of n characters, its end mark included when it has one
SentenceOf(n, mark) ==
    IF mark = "" THEN [i \in 1..n |-> "a"] ELSE [i \in 1..(n - 1) |-> "a"] \o <<mark>>

SentenceLengths == {20, 117, 119, 120, 121, 130}

TitleLine ==
    <<"#", " ", "T", "i", "t", "l", "e", "\n", "\n">>

MoreText ==
    <<" ", "M", "o", "r", "e", " ", "t", "e", "x", "t", ".">>

\* README files: a title, then a paragraph starting with the sentence
Readmes ==
    {Str(TitleLine \o SentenceOf(n, mark) \o more) :
        n \in SentenceLengths, mark \in {".", "!", "?", ""}, more \in {<<>>, MoreText}}

InitReadme ==
    /\ pc = "start"
    /\ variant \in {"cli", "web", "local"}
    /\ now = RunClock
    /\ host \in {HostOf([BaseRepo EXCEPT !.readme = r], NoConfig) : r \in Readmes}
    /\ entry = Undefined
    /\ emitted = Undefined
    /\ IdleRun
    /\ IdleCheck
    /\ IdleEnv

\* part_002, 100-122, on the README the directory holds
ParseReadme ==
    /\ pc = "start"
    /\ variant = "local"
    /\ detected' = [ran |-> TRUE, readme |-> parseReadme(host.readme)]
    /\ pc' = "scanned"
    /\ UNCHANGED <<variant, now, callVars, runVars, checkVars, remote, configFile,
                   workdir, exitCode>>

NextReadme == ProcessRepoCli \/ ProcessRepoWeb \/ ParseReadme

SpecReadme == InitReadme /\ [][NextReadme]_vars

-----------------------------------------------------------------------------
(* The file generate writes to *)

FORMAT_EXTENSIONS ==
    [json |-> <<".", "j", "s", "o", "n">>,
     yaml |-> <<".", "y", "a", "m", "l">>,
     markdown |-> <<".", "m", "d">>]

\* output.replace(/\.[^.]+$/, expectedExt): the last dot and what follows it, when
\* something follows it, are replaced; a text without such a dot stays as it is
ReplaceExtension(output, expectedExt) ==
    LET dots == {i \in 1..Len(output) : output[i] = "."} IN
    IF dots = {} THEN output
    ELSE LET k == CHOOSE i \in dots : \A j \in dots : j <= i
         IN IF k = Len(output) THEN output
            ELSE SubSeq(output, 1, k - 1) \o expectedExt

\* generate.ts, 344-349
finalOutput(output, fmt) ==
    LET expectedExt == FORMAT_EXTENSIONS[fmt] IN
    IF ~EndsWith(output, expectedExt) THEN ReplaceExtension(output, expectedExt)
    ELSE output

\* path.resolve(p) in the directory cwd, for a path without . or .. segments
resolve(cwd, p) == IF StartsWith(p, <<"/">>) THEN p ELSE cwd \o <<"/">> \o p

OutputOptions ==
    {    <<"p", "o", "r", "t", "f", "o", "l", "i", "o", ".", "j", "s", "o", "n">>,
         <<"p", "o", "r", "t", "f", "o", "l", "i", "o", ".", "y", "a", "m", "l">>,
         <<"p", "o", "r", "t", "f", "o", "l", "i", "o", ".", "m", "d">>,
         <<"p", "o", "r", "t", "f", "o", "l", "i", "o", ".", "y", "m", "l">>,
         <<"p", "o", "r", "t", "f", "o", "l", "i", "o">>,
         <<"o", "u", "t", "/", "d", "a", "t", "a", ".", "t", "x", "t">>,
         <<"d", "a", "t", "a", ".", "v", "2", ".", "j", "s", "o", "n">>,
         <<"/", "s", "r", "v", "/", "s", "i", "t", "e", "/", "p", "r", "o", "j",
      "e", "c", "t", "s", ".", "m", "a", "r", "k", "d", "o", "w", "n">>,
         <<"n", "o", "t", "e", "s", ".", "m", "d", ".", "b", "a", "k">>}

WorkingDirectories ==
    {    <<"/", "w", "o", "r", "k">>,
         <<"/", "h", "o", "m", "e", "/", "u", "/", "m", "y", ".", "s", "i", "t",
      "e">>}

InitOutput ==
    /\ pc = "start"
    /\ variant = "cli"
    /\ now = RunClock
    /\ IdleCall
    /\ listed \in {<<>>, <<HostSite, HostArm>>}
    /\ exclude = {}
    /\ repoList = <<>>
    /\ idx = 0
    /\ results = <<>>
    /\ failed = {}
    /\ format \in Formats
    /\ written = NoOutput
    /\ appState = "loading"
    /\ entries = <<>>
    /\ preview = NoOutput
    /\ toggles = 0
    /\ IdleCheck
    /\ remote = NotFetched
    /\ configFile = NotFetched
    /\ workdir \in {[cwd |-> d, output |-> o, path |-> Undefined] :
                      d \in WorkingDirectories, o \in OutputOptions}
    /\ detected = NotDetected
    /\ exitCode = -1

\* cli.ts, 195-202, and generate.ts, 298-358, for the given options when every
\* repository is processed
GenerateToFile ==
    /\ pc = "start"
    /\ variant = "cli"
    /\ repoList' = Filtered(listed, exclude)
    /\ idx' = Len(repoList') + 1
    /\ results' = SortEntries([i \in 1..Len(repoList') |-> processRepoCli(repoList'[i], now)])
    /\ written' = formatOutput(results', format)
    /\ workdir' = [workdir EXCEPT
                     !.path = Str(finalOutput(resolve(workdir.cwd, workdir.output), format))]
    /\ pc' = "done"
    /\ UNCHANGED <<variant, now, callVars, listed, exclude, failed, format, appState,
                   entries, preview, toggles, checkVars, remote, configFile, detected,
                   exitCode>>

NextOutput == GenerateToFile

SpecOutput == InitOutput /\ [][NextOutput]_vars

-----------------------------------------------------------------------------
(* The local commands on one directory: init, update, validate.  The file  *)
(* .portfolio.json is its parsed value and the order of its members: the   *)
(* text JSON.stringify(config, null, 2) writes is a function of the two.   *)

MaxChanges == 2

\* the keys of portfolioConfigSchema, in the order of its shape: the order of
\* the members of a parsed document
SchemaOrder ==
    <<"name", "shortDescription", "description", "category", "technologies",
      "status", "dateCompleted", "models", "images", "thumbnail", "media",
      "links", "featured", "exclude">>

\* the members of init's object literal, in order
InitOrder ==
    <<"name", "shortDescription", "description", "category", "technologies",
      "status", "dateCompleted", "models", "images", "thumbnail", "links">>

\* the directory's name, last commit (in the form of a timestamp), README and
\* technologies: the same at every scan
DirName ==
    <<"r", "o", "b", "o", "t", "-", "a", "r", "m">>

DirCommit == Str(TimeRecent)

DirReadme == Str(ReadmeText)

DirTech == <<"React">>

DirLanguages == {"TypeScript"}

\* metadata-detector.ts, 43-78, without a tag
detectMetadata(dir, clock) ==
    LET dateStr == DirCommit
        dateCompleted == IF Truthy(dateStr) THEN toYearMonth(dateStr) ELSE Undefined
        links == IF Truthy(dir.homepage)
                 THEN Obj([liveDemo |-> dir.homepage, docs |-> Undefined])
                 ELSE Undefined
    IN [name |-> CleanName(DirName),
        shortDescription |-> Undefined,
        description |-> Undefined,
        status |-> inferStatusLocal(DirCommit, clock),
        dateCompleted |-> Or(dateCompleted, Undefined),
        links |-> Or(links, Undefined)]

\* the Promise.all of the four detectors
detect(dir, clock) ==
    [ran |-> TRUE,
     tech |-> [technologies |-> Labels(DirTech), languages |-> DirLanguages,
               category |-> inferCategoryLocal(Range(DirTech), DirLanguages)],
     assets |-> detectAssets(dir.files),
     readme |-> parseReadme(DirReadme),
     meta |-> detectMetadata(dir, clock)]

\* cli.ts, 52-64
initConfig(d) ==
    [k \in SchemaKeys |->
        CASE k = "name" -> d.meta.name
          [] k = "shortDescription" ->
               Or(d.readme.shortDescription, d.meta.shortDescription)
          [] k = "description" -> Or(d.readme.description, d.meta.description)
          [] k = "category" -> d.tech.category
          [] k = "technologies" ->
               IF Len(d.tech.technologies) > 0 THEN Arr(d.tech.technologies)
               ELSE Undefined
          [] k = "status" -> d.meta.status
          [] k = "dateCompleted" -> d.meta.dateCompleted
          [] k = "models" ->
               IF Len(d.assets.models) > 0 THEN Arr(d.assets.models) ELSE Undefined
          [] k = "images" ->
               IF Len(d.assets.images) > 0 THEN Arr(d.assets.images) ELSE Undefined
          [] k = "thumbnail" -> d.assets.thumbnail
          [] k = "links" -> d.meta.links
          [] OTHER -> Undefined]

\* writePortfolioConfig of an object whose members were created in the given
\* order: JSON.stringify keeps the order and drops what is undefined
writeOrdered(config, order) ==
    [kind |-> "json",
     value |-> writePortfolioConfig(config).value,
     order |-> SelectSeq(order, LAMBDA k : config[k] # Undefined)]

\* the members of { ...existing } after the assignments of cli.ts, 148-163: the
\* members of existing, then each assigned key existing did not have
updatedOrder(existing) ==
    LET had == SelectSeq(SchemaOrder, LAMBDA k : existing[k] # Undefined)
        assigned ==
            SelectSeq(<<"technologies", "category", "shortDescription", "description",
                        "models", "images", "thumbnail">>,
                      LAMBDA k :
                        CASE k = "technologies" ->
                               ~Truthy(existing.technologies)
                               \/ Len(existing.technologies.a) = 0
                          [] k \in {"models", "images"} -> TRUE
                          [] OTHER -> ~Truthy(existing[k]))
    IN had \o SelectSeq(assigned, LAMBDA k : existing[k] = Undefined)

\* an init that does not look for an existing file
initOverwrites(file, dir, clock) ==
    [exit |-> 0, detected |-> detect(dir, clock),
     file |-> writeOrdered(initConfig(detect(dir, clock)), InitOrder)]

\* cli.ts, 29-84: [exit, detected, file] at the end of init
initCommand(file, dir, clock) ==
    IF file.kind # "absent"
    THEN [exit |-> 1, detected |-> NotDetected, file |-> file]
    ELSE [exit |-> 0, detected |-> detect(dir, clock),
          file |-> writeOrdered(initConfig(detect(dir, clock)), InitOrder)]

\* cli.ts, 118-168: [exit, detected, file] at the end of update
updateCommand(file, dir, clock) ==
    LET existing == readPortfolioConfig(file) IN
    IF ~existing.ok
    THEN [exit |-> 1, detected |-> NotDetected, file |-> file]
    ELSE [exit |-> 0, detected |-> detect(dir, clock),
          file |-> writeOrdered(updated(existing.data, detect(dir, clock)),
                                updatedOrder(existing.data))]

\* cli.ts, 86-116: the exit code of validate
validateCommand(file) ==
    IF file.kind = "json" /\ validateConfig(file.value).success THEN 0 ELSE 1

PathOldPng ==
    <<"d", "o", "c", "s", "/", "o", "l", "d", ".", "p", "n", "g">>

LocalListings ==
    {<<>>, <<Str(PathPng)>>, <<Str(PathPng), Str(PathCover)>>,
     <<Str(PathStl), Str(PathThumb)>>}

Homepages == {Undefined, Str(UrlHome), Str(NotAUrl)}

\* a file somebody wrote: its members in the order given
Handwritten(doc, order) == [kind |-> "json", value |-> Obj(doc), order |-> order]

LocalFiles ==
    {[kind |-> "absent"], [kind |-> "invalid"],
     Handwritten([NamedDoc EXCEPT !["featured"] = Bool(TRUE)], <<"featured", "name">>),
     Handwritten([NamedDoc EXCEPT !["thumbnail"] = Str(PathOldPng),
                                  !["images"] = Arr(<<Str(PathOldPng)>>),
                                  !["category"] = L("Hardware")],
                 <<"name", "category", "images", "thumbnail">>)}

InitLocal ==
    /\ pc = "start"
    /\ variant = "cli"
    /\ now = RunClock
    /\ IdleCall
    /\ IdleRun
    /\ IdleCheck
    /\ remote = NotFetched
    /\ configFile \in LocalFiles
    /\ workdir \in {Directory(l, h) : l \in LocalListings, h \in Homepages}
    /\ detected = NotDetected
    /\ exitCode = -1

InitCommand ==
    /\ LET end == initCommand(configFile, workdir, now) IN
         /\ configFile' = end.file
         /\ detected' = end.detected
         /\ exitCode' = end.exit
    /\ pc' = "init"
    /\ UNCHANGED <<variant, now, callVars, runVars, checkVars, remote, workdir>>

UpdateCommand ==
    /\ LET end == updateCommand(configFile, workdir, now) IN
         /\ configFile' = end.file
         /\ detected' = end.detected
         /\ exitCode' = end.exit
    /\ pc' = "update"
    /\ UNCHANGED <<variant, now, callVars, runVars, checkVars, remote, workdir>>

ValidateCommand ==
    /\ exitCode' = validateCommand(configFile)
    /\ detected' = NotDetected
    /\ pc' = "validate"
    /\ UNCHANGED <<variant, now, callVars, runVars, checkVars, remote, configFile,
                   workdir>>

\* files are added to the directory or removed from it
ChangeFiles ==
    /\ workdir.changes < MaxChanges
    /\ \E l \in LocalListings \ {workdir.files} :
          workdir' = [workdir EXCEPT !.files = l, !.changes = @ + 1]
    /\ pc' = "changed"
    /\ UNCHANGED <<variant, now, callVars, runVars, checkVars, remote, configFile,
                   detected, exitCode>>

NextLocal ==
    \/ InitCommand
    \/ UpdateCommand
    \/ ValidateCommand
    \/ ChangeFiles

SpecLocal == InitLocal /\ [][NextLocal]_vars

-----------------------------------------------------------------------------
(* The inference of category and technologies, CLI and web, on one descriptor *)

MaxTopics == 2

InferTopics == {"game", "unreal", "webapp", "react", "cli", "docker", "threejs"}

InferLanguages == {Null, L("C#"), L("Rust"), L("TypeScript")}

InitInfer ==
    /\ pc = "start"
    /\ variant = "cli"
    /\ now = RunClock
    /\ host \in {HostOf([BaseRepo EXCEPT !.info.topics = t, !.info.language = l], NoConfig) :
                    t \in UNION {[1..n -> InferTopics] : n \in 0..MaxTopics},
                    l \in InferLanguages}
    /\ entry = Undefined
    /\ emitted = Undefined
    /\ IdleRun
    /\ IdleCheck
    /\ IdleEnv

\* generate.ts, 45-92: what the CLI infers from the descriptor
InferCli ==
    /\ pc = "start"
    /\ entry' = [category |-> inferCategoryFromTopics(host.info.topics, host.info.language),
                 technologies |-> inferTechFromLanguage(host.info.language, host.info.topics)]
    /\ pc' = "cli"
    /\ UNCHANGED <<variant, now, host, emitted, runVars, checkVars, envVars>>

\* portfolio.ts, 35-68: what the web variant infers from it
InferWeb ==
    /\ pc = "cli"
    /\ emitted' = [category |-> inferCategory(host.info.topics, host.info.language),
                   technologies |-> inferTech(host.info.language, host.info.topics)]
    /\ pc' = "both"
    /\ UNCHANGED <<variant, now, host, entry, runVars, checkVars, envVars>>

NextInfer == InferCli \/ InferWeb

SpecInfer == InitInfer /\ [][NextInfer]_vars

-----------------------------------------------------------------------------
(* Claims about one call of processRepo *)

\* the fetched .portfolio.json parses and passes validateConfig
OverrideAccepted ==
    host.config.kind = "json" /\ validateConfig(host.config.value).success

\* the fetched .portfolio.json is not JSON or fails the schema
OverrideRejected ==
    \/ host.config.kind = "invalid"
    \/ host.config.kind = "json" /\ ~validateConfig(host.config.value).success

\* what the auto-detection path of the variant at hand gives for the repository
AutoDetected ==
    IF variant = "cli" THEN AutoEntryCli(host, now) ELSE AutoEntryWeb(host, now)

Processed == pc \in {"processed", "emitted"}

\* C1: in the CLI's processRepo, under an accepted override, every field the
\* override sets is in the entry with the override's value, and each of
\* technologies, category and status it leaves unset holds the inferred value.
C1_OverrideWins ==
    (Processed /\ variant = "cli" /\ OverrideAccepted) =>
        LET doc == host.config.value.o
            repo == host.info
        IN /\ \A k \in SchemaKeys : doc[k] # Undefined => entry[k] = doc[k]
           /\ doc.technologies = Undefined =>
                entry.technologies = inferTechFromLanguage(repo.language, repo.topics)
           /\ doc.category = Undefined =>
                entry.category = inferCategoryFromTopics(repo.topics, repo.language)
           /\ doc.status = Undefined => entry.status = inferStatus(repo, now)

\* the fields C2 names
OptionalFields ==
    {"shortDescription", "description", "dateCompleted", "models", "images",
     "links", "technologies", "category", "status"}

\* C2: under an accepted override, every optional field the override omits has
\* in the entry the value the auto-detection path gives for the repository.
C2_OmittedFieldsDetected ==
    (Processed /\ OverrideAccepted) =>
        \A k \in OptionalFields :
            host.config.value.o[k] = Undefined => entry[k] = AutoDetected[k]

ArrayFields == {"technologies", "models", "images"}

\* C3: in the JSON output, each of technologies, models and images is a
\* non-empty array or absent.
C3_NoEmptyArray ==
    pc = "emitted" =>
        \A k \in ArrayFields \cap DOMAIN emitted :
            emitted[k].t = "array" /\ Len(emitted[k].a) > 0

\* C5: when the fetched .portfolio.json is not JSON or fails the schema, the
\* entry is the one auto-detection builds, with nothing of the override in it.
C5_RejectedOverrideIgnored ==
    (Processed /\ OverrideRejected) => entry = AutoDetected

-----------------------------------------------------------------------------
(* Claims about the bulk run *)

\* the override of a listed repository sets exclude: true
SetsExclude(h) ==
    /\ h.config.kind = "json"
    /\ h.config.value.t = "object"
    /\ h.config.value.o.exclude = Bool(TRUE)

\* C4: a repository whose override sets exclude: true has no entry among those
\* a generate run emits; in the web variant its entry has enabled = false.
C4_ExcludedNotEmitted ==
    pc = "done" =>
        \A i \in 1..Len(listed) : SetsExclude(listed[i]) =>
            \A j \in 1..Len(results) : results[j].github = listed[i].info.url =>
                variant = "web" /\ results[j].enabled = Bool(FALSE)

\* the entry processRepo of the variant at hand returns for a repository
EntryOf(h) ==
    IF variant = "cli" THEN processRepoCli(h, now) ELSE processRepoWeb(h, now)

RECURSIVE Accumulated(_)
\* the entries of the first n repositories of the run that did not fail, in order
Accumulated(n) ==
    IF n = 0 THEN <<>>
    ELSE Accumulated(n - 1)
         \o (IF n \in failed THEN <<>> ELSE <<EntryOf(repoList[n])>>)

\* C6: when the run is over, every repository of the list has been visited, a
\* repository whose processing failed has no entry, every other repository has
\* its entry, and the number of entries is the number of repositories that did
\* not fail; generate has written the sorted entries.
C6_FailureSkipsOne ==
    pc = "done" =>
        /\ idx = Len(repoList) + 1
        /\ Len(results) = Len(repoList) - Cardinality(failed)
        /\ \A i \in 1..Len(repoList) :
              (\E j \in 1..Len(results) : results[j].github = repoList[i].info.url)
                  <=> i \notin failed
        /\ \A i \in (1..Len(repoList)) \ failed :
              \E j \in 1..Len(results) : results[j] = EntryOf(repoList[i])
        /\ variant = "cli" => written = formatOutput(results, format)
        /\ variant = "web" => entries = results /\ appState = "done"

\* C6's case: a repository failed and a later one was processed
C6_Witness ==
    /\ pc = "done"
    /\ \E i \in failed : \E k \in (i + 1)..Len(repoList) : k \notin failed

DateOf(e) == Or(e.dateCompleted, EmptyStr).s

SameKey(a, b) == Truthy(a.featured) = Truthy(b.featured) /\ DateOf(a) = DateOf(b)

Position(list, e) == CHOOSE i \in 1..Len(list) : list[i] = e

\* C7: the list generate hands to its writer, and the list startScan sets, holds
\* the accumulated entries, featured ones first, each group in descending order
\* of dateCompleted with the undated last, entries of equal key in the order
\* they were accumulated; the JSON and YAML documents keep that order.
C7_StableSort ==
    pc = "done" =>
        LET acc == Accumulated(Len(repoList)) IN
        /\ Len(results) = Len(acc)
        /\ \A i \in 1..Len(acc) : \E j \in 1..Len(results) : results[j] = acc[i]
        /\ \A i, j \in 1..Len(results) : i < j =>
              /\ Truthy(results[j].featured) => Truthy(results[i].featured)
              /\ Truthy(results[i].featured) = Truthy(results[j].featured) =>
                    LocaleCompare(DateOf(results[i]), DateOf(results[j])) >= 0
              /\ SameKey(results[i], results[j]) =>
                    Position(acc, results[i]) < Position(acc, results[j])
        /\ (variant = "cli" /\ format \in {"json", "yaml"}) =>
              /\ Len(written.projects) = Len(results)
              /\ \A i \in 1..Len(results) : written.projects[i].github = results[i].github

\* C7's case: a featured entry dated 2023-01 accumulated after a non-featured
\* entry dated 2024-03 and sorted before it, with two entries of equal key
C7_Witness ==
    /\ pc = "done"
    /\ LET acc == Accumulated(Len(repoList)) IN
       /\ \E i, j \in 1..Len(acc) :
             /\ i < j
             /\ ~Truthy(acc[i].featured) /\ DateOf(acc[i]) = Date2024
             /\ Truthy(acc[j].featured) /\ DateOf(acc[j]) = Date2023
             /\ Position(results, acc[j]) < Position(results, acc[i])
       /\ \E i, j \in 1..Len(acc) : i < j /\ SameKey(acc[i], acc[j])

-----------------------------------------------------------------------------
(* Claims about the web page *)

\* a project of a JSON or YAML document is marked featured
FeaturedIn(p) == "featured" \in DOMAIN p /\ Truthy(p.featured)

\* the date a project of a JSON or YAML document carries, empty when it has none
DateIn(p) == IF "dateCompleted" \in DOMAIN p THEN p.dateCompleted.s ELSE <<>>

\* the projects of a JSON or YAML document are featured-first, each group in
\* descending order of dateCompleted
InOrder(out) ==
    out.format \in {"json", "yaml"} =>
        \A i, j \in 1..Len(out.projects) : i < j =>
            /\ FeaturedIn(out.projects[j]) => FeaturedIn(out.projects[i])
            /\ FeaturedIn(out.projects[i]) = FeaturedIn(out.projects[j]) =>
                  LocaleCompare(DateIn(out.projects[i]), DateIn(out.projects[j])) >= 0

\* C8: whatever toggles came before, the document formatEntries gives the
\* preview and the download lists its projects featured-first and then by
\* descending dateCompleted.
C8_FormattedInOrder == InOrder(preview) /\ InOrder(written)

-----------------------------------------------------------------------------
(* Claims about validateConfig *)

Present(x) == x # Undefined

IsText(x) == x.t = "string"

IsUrlText(x) == x.t = "string" /\ IsUrl(x.s)

IsTextArray(x) == x.t = "array" /\ \A i \in 1..Len(x.a) : IsText(x.a[i])

\* a nested value of a document, Undefined where the parent is not an object
Inner(x, key) == IF x.t = "object" THEN x.o[key] ELSE Undefined

\* the rules C9 names, on a parsed document
NamedRules(doc) ==
    /\ doc.t = "object"
    /\ LET d == doc.o
           game == Inner(d.media, "game")
       IN /\ IsText(d.name) /\ Len(d.name.s) >= 1
          /\ Present(d.dateCompleted) =>
                IsText(d.dateCompleted) /\ MatchesYearMonth(d.dateCompleted.s)
          /\ Present(d.status) => IsText(d.status) /\ d.status.s \in StatusValues
          /\ Present(Inner(game, "type")) =>
                IsText(game.o.type) /\ game.o.type.s \in GameTypes
          /\ \A u \in {Inner(d.media, "video"), Inner(d.media, "website"),
                       Inner(d.links, "liveDemo"), Inner(d.links, "docs"),
                       Inner(game, "url")} : Present(u) => IsUrlText(u)

\* the types the schema declares for the other fields, and the two fields a
\* game must have
TypeRules(doc) ==
    LET d == doc.o
        game == Inner(d.media, "game")
    IN /\ \A k \in {"shortDescription", "description", "category", "thumbnail"} :
             Present(d[k]) => IsText(d[k])
       /\ \A k \in {"technologies", "models", "images"} :
             Present(d[k]) => IsTextArray(d[k])
       /\ \A k \in {"featured", "exclude"} : Present(d[k]) => d[k].t = "boolean"
       /\ \A k \in {"media", "links"} : Present(d[k]) => d[k].t = "object"
       /\ Present(Inner(d.media, "pdf")) => IsText(d.media.o.pdf)
       /\ Present(game) =>
             game.t = "object" /\ Present(game.o.type) /\ Present(game.o.url)

Dotted(path) == Join([k \in 1..Len(path) |-> <<path[k]>>], <<".">>)

At(path, broken) == IF broken THEN {Dotted(path)} ELSE {}

\* the field paths at which a document breaks the schema
Violations(doc) ==
    IF doc.t # "object" THEN {<<>>}
    ELSE LET d == doc.o
             media == d.media
             game == Inner(media, "game")
             links == d.links
         IN At(<<"name">>, ~(IsText(d.name) /\ Len(d.name.s) >= 1))
            \cup UNION {At(<<k>>, Present(d[k]) /\ ~IsText(d[k])) :
                          k \in {"shortDescription", "description", "category",
                                 "thumbnail"}}
            \cup UNION {At(<<k>>, Present(d[k]) /\ d[k].t # "array") :
                          k \in {"technologies", "models", "images"}}
            \cup UNION {IF d[k].t = "array"
                        THEN {Dotted(<<k, DigitChar(i - 1)>>) :
                                i \in {j \in 1..Len(d[k].a) : ~IsText(d[k].a[j])}}
                        ELSE {} : k \in {"technologies", "models", "images"}}
            \cup At(<<"status">>,
                    Present(d.status)
                    /\ ~(IsText(d.status) /\ d.status.s \in StatusValues))
            \cup At(<<"dateCompleted">>,
                    Present(d.dateCompleted)
                    /\ ~(IsText(d.dateCompleted) /\ MatchesYearMonth(d.dateCompleted.s)))
            \cup UNION {At(<<k>>, Present(d[k]) /\ d[k].t # "boolean") :
                          k \in {"featured", "exclude"}}
            \cup UNION {At(<<k>>, Present(d[k]) /\ d[k].t # "object") :
                          k \in {"media", "links"}}
            \cup UNION {At(<<"media", k>>,
                           Present(Inner(media, k)) /\ ~IsUrlText(Inner(media, k))) :
                          k \in {"video", "website"}}
            \cup At(<<"media", "pdf">>,
                    Present(Inner(media, "pdf")) /\ ~IsText(Inner(media, "pdf")))
            \cup At(<<"media", "game">>, Present(game) /\ game.t # "object")
            \cup At(<<"media", "game", "type">>,
                    game.t = "object"
                    /\ ~(IsText(game.o.type) /\ game.o.type.s \in GameTypes))
            \cup At(<<"media", "game", "url">>,
                    game.t = "object" /\ ~IsUrlText(game.o.url))
            \cup UNION {At(<<"links", k>>,
                           Present(Inner(links, k)) /\ ~IsUrlText(Inner(links, k))) :
                          k \in {"liveDemo", "docs"}}

\* the field path of a 'field-path: message' item
ErrorPath(e) ==
    SubSeq(e, 1, (CHOOSE i \in 1..Len(e) :
                     e[i] = ":" /\ \A j \in 1..(i - 1) : e[j] # ":") - 1)

Validated == pc = "validated"

\* C9 as the specification words it: success exactly when the named rules hold.
C9_SuccessIffNamedRules ==
    Validated => (verdict.success <=> NamedRules(document))

\* C9: validateConfig succeeds exactly when the document is an object that keeps
\* the named rules, gives every other present field the type the schema
\* declares, and gives a present media.game both its type and its url; a key
\* the schema does not know changes nothing; on failure there is one item for
\* every field path at which the document breaks the schema.
C9_SuccessIffSchema ==
    Validated =>
        /\ verdict.success <=> (NamedRules(document) /\ TypeRules(document))
        /\ document.t = "object" =>
              validateConfig(Obj([document.o EXCEPT !["github"] = Undefined])).success
                  = verdict.success
        /\ ~verdict.success =>
              /\ {ErrorPath(verdict.errors[i]) : i \in 1..Len(verdict.errors)}
                    = Violations(document)
              /\ Len(verdict.errors) = Cardinality(Violations(document))

\* C9's case: a document with an unknown key that breaks three rules or more
C9_Witness ==
    /\ Validated
    /\ document.t = "object"
    /\ Present(document.o.github)
    /\ ~verdict.success
    /\ Len(verdict.errors) >= 3

\* C10 as the specification words it: one error, on dateCompleted.
C10_OneError ==
    (Validated /\ document = SlashDoc) =>
        /\ ~verdict.success
        /\ Len(verdict.errors) = 1
        /\ ErrorPath(verdict.errors[1]) = <<"dateCompleted">>

\* C10: validateConfig on {"dateCompleted": "2024/03"} fails with two errors,
\* name: Required and then dateCompleted: Must be YYYY-MM format.
C10_TwoErrors ==
    (Validated /\ document = SlashDoc) =>
        /\ ~verdict.success
        /\ verdict.errors = <<<<"name", ":", " ", "Required">>,
                              <<"dateCompleted", ":", " ", "Must be YYYY-MM format">>>>

\* C10's case: the scenario's document has been validated
C10_Witness == Validated /\ document = SlashDoc

-----------------------------------------------------------------------------
(* Claims about the update command *)

\* the fields update may not touch once the document sets them
FrameKeys == SchemaKeys \ {"models", "images"}

\* the document sets the field (technologies: to a non-empty list)
IsSet(doc, k) ==
    /\ doc[k] # Undefined
    /\ k = "technologies" => Len(doc[k].a) > 0

Refreshed(list) == IF Len(list) > 0 THEN Arr(list) ELSE Undefined

\* C11: after update, every field other than models and images that the existing
\* document set is in the written file with the value it had, whatever the
\* detectors returned; models and images hold the detector's lists, and are
\* missing when the list is empty.
C11_UpdateKeepsSetFields ==
    pc = "updated" =>
        /\ \A k \in FrameKeys :
              IsSet(document.o, k) => configFile.value.o[k] = document.o[k]
        /\ configFile.value.o["models"] = Refreshed(detected.assets.models)
        /\ configFile.value.o["images"] = Refreshed(detected.assets.images)

\* a .portfolio.json update cannot use
Unusable(file) ==
    \/ file.kind \in {"absent", "unreadable", "invalid"}
    \/ file.kind = "json" /\ ~validateConfig(file.value).success

\* C12: update on a missing, unreadable, non-JSON or schema-invalid .portfolio.json
\* ends with exit code 1, runs no detector and leaves the file as it was, and
\* nothing follows; processRepo on a repository without .portfolio.json returns
\* the auto-detected entry.
C12_UpdateFailsWithoutConfig ==
    /\ \A r \in BaseRepos : \A clock \in Clocks :
          processRepoCli(HostOf(r, NoConfig), clock) = AutoEntryCli(HostOf(r, NoConfig), clock)
    /\ [][/\ pc = "start" /\ Unusable(configFile) =>
               /\ pc' = "failed"
               /\ exitCode' = 1
               /\ detected' = NotDetected
               /\ configFile' = configFile
          /\ pc # "failed"]_vars

C12_Witness ==
    /\ pc = "failed"
    /\ exitCode = 1
    /\ configFile = Json(Obj([NoDoc EXCEPT !["dateCompleted"] = Str(DateSlash)]))

-----------------------------------------------------------------------------
(* Claims about failed fetches *)

Failed(answer) == answer.kind = "error"

DescriptorFields == {"name", "category", "technologies", "status", "github"}

\* the five fields as the descriptor alone gives them
FromDescriptor(repo, clock) ==
    [k \in DescriptorFields |->
        CASE k = "name" -> CleanName(repo.name)
          [] k = "category" -> inferCategoryFromTopics(repo.topics, repo.language)
          [] k = "technologies" -> inferTechFromLanguage(repo.language, repo.topics)
          [] k = "status" -> inferStatus(repo, clock)
          [] k = "github" -> repo.url]

\* C13: a failed request makes getFileContent return null and getRepoTree return
\* an empty list, and neither raises; whichever of the three fetches fail,
\* processRepo returns an entry whose name, category, technologies, status and
\* github are set, and are those of the descriptor when .portfolio.json could not
\* be fetched.
C13_FetchFailuresAbsorbed ==
    /\ pc # "raised"
    /\ pc = "processed" =>
         /\ \A f \in {"config", "readme"} :
               Failed(remote[f]) =>
                   getFileContent(remote[f]) = [raised |-> FALSE, value |-> Null]
         /\ Failed(remote.tree) =>
               getRepoTree(remote.tree) = [raised |-> FALSE, value |-> <<>>]
         /\ \A k \in DescriptorFields : entry[k] # Undefined /\ entry[k] # Null
         /\ Failed(remote.config) =>
               \A k \in DescriptorFields : entry[k] = FromDescriptor(host.info, now)[k]

C13_Witness ==
    /\ pc = "processed"
    /\ Failed(remote.config) /\ Failed(remote.readme) /\ Failed(remote.tree)
    /\ entry["github"] = Str(UrlRepo)
    /\ entry["category"] = L("Robotics")

-----------------------------------------------------------------------------
(* Claims about the detectors *)

TextXY ==
    <<"T", "h", "i", "s", " ", "p", "r", "o", "j", "e", "c", "t", " ", "d",
      "o", "e", "s", " ", "X", ".", " ", "I", "t", " ", "a", "l", "s", "o",
      " ", "d", "o", "e", "s", " ", "Y", ".">>

TextX ==
    <<"T", "h", "i", "s", " ", "p", "r", "o", "j", "e", "c", "t", " ", "d",
      "o", "e", "s", " ", "X", ".">>

\* C14: for the README "# Title", blank, "![badge](url)", blank, "This project
\* does X. It also does Y.", blank, "More text." the description is "This project
\* does X. It also does Y." and the shortDescription "This project does X.", from
\* the local parseReadme and from processRepo on a repository without override
\* and without descriptor text.
C14_ReadmeFirstParagraph ==
    /\ parseReadme(Str(ReadmeText)) =
          [description |-> Str(TextXY), shortDescription |-> Str(TextX)]
    /\ (/\ pc = "processed"
        /\ host.config = NoConfig
        /\ host.info.description = Null
        /\ host.readme = Str(ReadmeText)) =>
           /\ entry["description"] = Str(TextXY)
           /\ entry["shortDescription"] = Str(TextX)

\* the extension of a path: what follows the last dot of its file name, lower
\* case, with the dot; empty when the file name has no dot
Extension(path) ==
    LET pieces == Split(FileName(path), ".")
    IN IF Len(pieces) = 1 THEN <<>>
       ELSE <<".">> \o ToLowerCase(pieces[Len(pieces)])

IsModelPath(path) == Extension(path) \in MODEL_EXTS

IsImagePath(path) ==
    /\ Extension(path) \in IMAGE_EXTS
    /\ \E d \in IMAGE_DIRS : StartsWith(path, d)

\* the list an entry holds under a key, empty when the key is unset
ListOf(e, key) == IF e[key] = Undefined THEN <<>> ELSE e[key].a

\* C15: the entry's models are exactly the listed paths whose extension, in lower
\* case, is a model extension, and its images exactly the listed paths with an
\* image extension under docs/, assets/, images/, screenshots/ or media/, both in
\* listing order; [docs/photo.png, src/icon.png, cad/arm.stl] gives images
\* [docs/photo.png] and models [cad/arm.stl].
C15_AssetsByExtension ==
    pc = "processed" =>
        /\ ListOf(entry, "models") =
              SelectSeq2(host.tree, {f \in Range(host.tree) : IsModelPath(f.s)})
        /\ ListOf(entry, "images") =
              SelectSeq2(host.tree, {f \in Range(host.tree) : IsImagePath(f.s)})
        /\ host.tree = <<Str(PathPng), Str(PathIcon), Str(PathStl)>> =>
              /\ entry["images"] = Arr(<<Str(PathPng)>>)
              /\ entry["models"] = Arr(<<Str(PathStl)>>)

\* the category the detected technologies name, Undefined when none does
TechnologyCategory(tech) ==
    IF Has(tech, {"Three.js", "React Three Fiber"}) THEN L("Web 3D")
    ELSE IF "Bevy" \in tech THEN L("Game Development")
    ELSE IF Has(tech, {"TensorFlow", "PyTorch", "scikit-learn", "Keras"})
    THEN L("Machine Learning")
    ELSE IF "React Native" \in tech THEN L("Mobile App")
    ELSE IF "Electron" \in tech THEN L("Desktop App")
    ELSE IF Has(tech, {"React", "Vue", "Angular", "Svelte", "Next.js", "Nuxt"})
    THEN L("Web App")
    ELSE IF Has(tech, {"Express", "Fastify", "Koa", "Flask", "Django", "FastAPI"})
    THEN L("Backend/API")
    ELSE Undefined

\* the fallback on the languages alone
LanguageCategory(langs) ==
    IF "C#" \in langs THEN L("Game Development")
    ELSE IF "Arduino" \in langs THEN L("Robotics")
    ELSE IF Has(langs, {"Swift", "Kotlin", "Dart"}) THEN L("Mobile App")
    ELSE IF "Rust" \in langs THEN L("Systems Programming")
    ELSE IF "Go" \in langs THEN L("Backend/API")
    ELSE IF "Python" \in langs THEN L("Python")
    ELSE IF Has(langs, {"C++", "C"}) THEN L("Systems Programming")
    ELSE L("Software")

TopicLists ==
    {<<>>, <<"react">>, <<"react", "three-js">>, <<"three-js", "react">>, <<"api">>,
     <<"cli">>, <<"robotics">>, <<"game">>, <<"notes">>}

TopicLanguages == {Null, L("C#"), L("Rust"), L("Go"), L("Python"), L("TypeScript")}

\* C16: the category is decided by the tags first and by the language only when
\* no tag decides: with a deciding tag the language does not matter, react with
\* three-js is Web 3D, the fallbacks are C# -> Game Development, Rust -> Systems
\* Programming, Go -> Backend/API, Python -> Python, and Software otherwise; for
\* the remote inferCategoryFromTopics, and for the local inferCategory over the
\* detected technologies and languages.
C16_TagsBeforeLanguage ==
    /\ \A topics \in TopicLists : \A lang \in TopicLanguages :
          LET c == inferCategoryFromTopics(topics, lang) IN
          /\ inferCategoryFromTopics(topics, Null) # L("Software") =>
                c = inferCategoryFromTopics(topics, Null)
          /\ {"react", "three-js"} \subseteq Range(topics) => c = L("Web 3D")
          /\ inferCategoryFromTopics(topics, Null) = L("Software") =>
                c = CASE lang = L("C#") -> L("Game Development")
                      [] lang = L("Rust") -> L("Systems Programming")
                      [] lang = L("Go") -> L("Backend/API")
                      [] lang = L("Python") -> L("Python")
                      [] OTHER -> L("Software")
    /\ detected.ran =>
          LET tech == {detected.tech.technologies[i].s[1] :
                          i \in 1..Len(detected.tech.technologies)}
              byTech == TechnologyCategory(tech)
          IN detected.tech.category =
                IF byTech # Undefined THEN byTech
                ELSE LanguageCategory(detected.tech.languages)

\* the timestamp is a date more than one year before the clock's day
OlderThanYear(stamp, clock) ==
    /\ IsTimestamp(stamp)
    /\ LET y == StrToNat(SubSeq(stamp, 1, 4))
           m == StrToNat(SubSeq(stamp, 6, 7))
           d == StrToNat(SubSeq(stamp, 9, 10))
       IN \/ y < clock.y - 1
          \/ y = clock.y - 1 /\ m < clock.m
          \/ y = clock.y - 1 /\ m = clock.m /\ d < clock.d

\* no override gives the entry its status
StatusUnset ==
    \/ host.config.kind # "json"
    \/ Prop(host.config.value, "status") = Undefined

-----------------------------------------------------------------------------
(* Claims about the entry's fields *)

ScalarFields ==
    {"name", "shortDescription", "description", "category", "status", "dateCompleted",
     "thumbnail", "github"}

\* the override in use gives the field a value
Supplied(k) ==
    /\ host.config.kind = "json"
    /\ Prop(host.config.value, k) # Undefined

\* C18: a scalar field the override does not supply is either missing from the
\* entry or holds a detected value, never null and never the empty string; a
\* dateCompleted the override does not supply is missing or of the form YYYY-MM.
C18_NoEmptyScalar ==
    Processed =>
        /\ \A k \in ScalarFields :
              ~Supplied(k) => entry[k] # Null /\ entry[k] # EmptyStr
        /\ ~Supplied("dateCompleted") =>
              \/ entry["dateCompleted"] = Undefined
              \/ /\ IsStr(entry["dateCompleted"])
                 /\ MatchesYearMonth(entry["dateCompleted"].s)

-----------------------------------------------------------------------------
(* Claims about the JSON round trip *)

\* the member of a parsed object, Undefined when it has none
Member(object, key) == IF key \in DOMAIN object.o THEN object.o[key] ELSE Undefined

\* the (name, github) pairs of parsed projects
ParsedPairs(projects) ==
    [i \in 1..Len(projects) |-> <<Member(projects[i], "name"), Member(projects[i], "github")>>]

\* the (name, github) pairs of entries
EntryPairs(list) == [i \in 1..Len(list) |-> <<list[i]["name"], list[i]["github"]>>]

\* the entries that are switched on, in their order
SwitchedOn(list) == SelectSeq(list, LAMBDA e : e["enabled"] = Bool(TRUE))

NoEnabledKey(projects) ==
    \A i \in 1..Len(projects) : "enabled" \notin DOMAIN projects[i].o

\* C20, as stated: the parsed text of formatEntries(entries, json) lists the
\* (name, github) pairs of the input entries, in order, and no project has an
\* enabled key.
C20_RoundTripAllEntries ==
    pc = "parsed" =>
        LET projects == Member(preview.value, "projects").a IN
        /\ ParsedPairs(projects) = EntryPairs(entries)
        /\ NoEnabledKey(projects)

\* C20, amended: the parsed text lists the (name, github) pairs of the input
\* entries that are enabled, in order, and no project has an enabled key.
C20_RoundTripEnabledEntries ==
    pc = "parsed" =>
        LET projects == Member(preview.value, "projects").a IN
        /\ ParsedPairs(projects) = EntryPairs(SwitchedOn(entries))
        /\ NoEnabledKey(projects)

C20_Witness ==
    /\ pc = "parsed"
    /\ Len(entries) = 2
    /\ entries[1]["enabled"] = Bool(FALSE)
    /\ entries[2]["enabled"] = Bool(TRUE)
    /\ entries[2]["name"] = Str(NameBackslash)
    /\ Len(Member(preview.value, "projects").a) = 1

-----------------------------------------------------------------------------
(* Claims about the local commands *)

ThumbnailPrefixes ==
    <<<<"t", "h", "u", "m", "b">>, <<"c", "o", "v", "e", "r">>, <<"h", "e", "r", "o">>,
      <<"b", "a", "n", "n", "e", "r">>, <<"p", "r", "e", "v", "i", "e", "w">>>>

\* the image's basename starts with the prefix, letter case put aside
Named(img, prefix) ==
    LET base == FileName(img.s)
    IN /\ Len(base) >= Len(prefix)
       /\ \A i \in 1..Len(prefix) : ToLowerCase(<<base[i]>>) = <<prefix[i]>>

\* C21: no thumbnail for an empty image list; otherwise the first image named
\* after the highest-priority prefix that names any image, the priorities being
\* thumb, cover, hero, banner, preview; the first image when no prefix names one.
C21_ThumbnailByPriority ==
    pc = "scanned" =>
        LET images == detected.assets.images
            picked == detected.assets.thumbnail
            naming == {p \in 1..5 : \E i \in 1..Len(images) : Named(images[i], ThumbnailPrefixes[p])}
        IN IF Len(images) = 0 THEN picked = Undefined
           ELSE IF naming = {} THEN picked = images[1]
           ELSE \E p \in naming : \E i \in 1..Len(images) :
                   /\ \A q \in naming : p <= q
                   /\ picked = images[i]
                   /\ Named(images[i], ThumbnailPrefixes[p])
                   /\ \A j \in 1..(i - 1) : ~Named(images[j], ThumbnailPrefixes[p])

C21_Witness ==
    /\ pc = "scanned"
    /\ detected.assets.images = <<Str(PathPng), Str(PathCover), Str(PathThumb)>>
    /\ detected.assets.thumbnail = Str(PathThumb)

\* C24: init on a directory that has a .portfolio.json ends with exit code 1,
\* runs no detector and leaves the file as it is; init changes the file only
\* when there was none.
C24_InitKeepsExisting ==
    [][pc' = "init" =>
          /\ configFile.kind # "absent" =>
                /\ exitCode' = 1
                /\ detected' = NotDetected
                /\ configFile' = configFile
          /\ configFile' # configFile => configFile.kind = "absent"]_vars

C24_Witness ==
    /\ pc = "init"
    /\ exitCode = 1
    /\ detected = NotDetected
    /\ configFile \in LocalFiles \ {[kind |-> "absent"]}

\* C25: the file a successful init wrote is accepted by validateConfig: validate
\* and the read of update succeed on it, whatever the detectors returned.
C25_InitWritesValid ==
    (pc = "init" /\ exitCode = 0) =>
        /\ validateCommand(configFile) = 0
        /\ readPortfolioConfig(configFile).ok

\* an update that directly follows a successful init or update, nothing in the
\* directory having changed in between
RepeatedUpdate == pc \in {"init", "update"} /\ exitCode = 0 /\ pc' = "update"

C27_ThumbnailAmongImages ==
    (pc \in {"init", "update"} /\ exitCode = 0
     /\ configFile.value.o["thumbnail"] # Undefined) =>
        /\ configFile.value.o["images"] # Undefined
        /\ configFile.value.o["thumbnail"] \in Range(configFile.value.o["images"].a)

-----------------------------------------------------------------------------
(* Claims about the toggles *)

\* from list before to list after only the flag of the entry at index changed,
\* and its truthiness did
OnlyFlag(before, after, index, flag) ==
    /\ Len(after) = Len(before)
    /\ \A j \in 1..Len(before) : j # index => after[j] = before[j]
    /\ DOMAIN after[index] = DOMAIN before[index]
    /\ \A k \in DOMAIN before[index] \ {flag} : after[index][k] = before[index][k]
    /\ Truthy(after[index][flag]) = ~Truthy(before[index][flag])

\* C29: toggleEntry(i) changes only the enabled flag of entry i and
\* toggleFeatured(i) only its featured flag: the other entries, their number and
\* order, and the other fields of entry i stay; the same toggle twice gives
\* back the enabled flag, and a featured flag that is truthy when it was.
C29_ToggleOnlyFlag ==
    /\ [][\A i \in 1..MaxRepos :
            /\ toggleEntry(i) => OnlyFlag(entries, entries', i, "enabled")
            /\ toggleFeatured(i) => OnlyFlag(entries, entries', i, "featured")]_vars
    /\ [](\A i \in 1..Len(entries) :
            /\ withEnabledToggled(withEnabledToggled(entries, i), i) = entries
            /\ LET twice == withFeaturedToggled(withFeaturedToggled(entries, i), i) IN
                 /\ Truthy(twice[i].featured) = Truthy(entries[i].featured)
                 /\ OnlyFlag(withFeaturedToggled(entries, i), twice, i, "featured"))

C29_Witness ==
    /\ toggles = 2
    /\ \E i \in 1..Len(entries) :
          /\ entries[i].enabled = Bool(FALSE)
          /\ results[i].featured = Undefined
          /\ entries[i].featured = Bool(TRUE)

-----------------------------------------------------------------------------
(* Claims about the web page's scan *)

\* C28: once startScan has set the state to scanning, the state eventually is
\* done, whatever /api/repos and each /api/process answer, every request
\* completing.
C28_ScanReachesDone == (appState = "scanning") ~> (appState = "done")

-----------------------------------------------------------------------------
(* Claims about the short description *)

\* the text up to and including its first end mark, the whole text without one
FirstSentenceOf(text) ==
    LET marks == {i \in 1..Len(text) : text[i] \in {".", "!", "?"}}
    IN IF marks = {} THEN text
       ELSE SubSeq(text, 1, CHOOSE i \in marks : \A j \in marks : i <= j)

\* short is the first sentence of long, cut to 120 characters with "..." at the
\* end when the sentence is longer
ShortOf(long, short) ==
    LET sentence == FirstSentenceOf(long.s) IN
    /\ Len(short.s) <= 120
    /\ Len(sentence) <= 120 => short.s = sentence
    /\ Len(sentence) > 120 =>
          /\ SubSeq(short.s, Len(short.s) - 2, Len(short.s)) = <<".", ".", ".">>
          /\ SubSeq(short.s, 1, Len(short.s) - 3) = SubSeq(sentence, 1, Len(short.s) - 3)

\* C22: a shortDescription taken from the README is the first sentence of the
\* description, has at most 120 characters, and ends with "..." when the first
\* sentence has more; from the local parseReadme and from both processRepo.
C22_ShortDescriptionBounded ==
    /\ (pc = "scanned" /\ detected.readme.shortDescription # Undefined) =>
          ShortOf(detected.readme.description, detected.readme.shortDescription)
    /\ (pc = "processed" /\ entry["shortDescription"] # Undefined) =>
          ShortOf(entry["description"], entry["shortDescription"])

-----------------------------------------------------------------------------
(* Claims about generate's output file *)

\* the extension a path ends with: from the last dot of its last segment on
FinalExtension(path) ==
    LET dots == {i \in 1..Len(path) : path[i] = "." /\ \A j \in i..Len(path) : path[j] # "/"}
    IN IF dots = {} THEN <<>>
       ELSE SubSeq(path, CHOOSE i \in dots : \A j \in dots : j <= i, Len(path))

\* the path without its final extension
Stem(path) == SubSeq(path, 1, Len(path) - Len(FinalExtension(path)))

FormatExtension ==
    [json |-> <<"j", "s", "o", "n">>, yaml |-> <<"y", "a", "m", "l">>,
     markdown |-> <<"m", "d">>]

GivenPath == resolve(workdir.cwd, workdir.output)

\* C23: the path generate writes to ends with the extension of the requested
\* format and differs from the supplied path only in its final extension; a
\* supplied path that ends with the right extension is used as it is.
C23_OutputExtension ==
    pc = "done" /\ workdir.path # Undefined =>
        LET ext == <<".">> \o FormatExtension[format]
            final == workdir.path.s
        IN /\ EndsWith(final, ext)
           /\ Stem(final) = Stem(GivenPath)
           /\ EndsWith(GivenPath, ext) => final = GivenPath

-----------------------------------------------------------------------------
(* Claims about the two variants of the inference *)

\* C30: for every list of topics and every primary language the CLI and the web
\* variant infer the same category and the same list of technologies.
C30_InferenceAgrees ==
    pc = "both" =>
        /\ entry.category = emitted.category
        /\ entry.technologies = emitted.technologies

====
